---- MODULE Spec2Model ----
(***************************************************************************)
(* Camera file-transfer analyzer.                                          *)
(*                                                                         *)
(*   analyze_transfers  (src/ftp_transfer_analyzer.py)  -- Spec            *)
(*   calculate_metrics  (src/mqtt_test_analyzer_ws.py)  -- SpecMetrics     *)
(*                                                                         *)
(* Timestamps are integers (one unit = one tick of the capture clock);     *)
(* datetime/timedelta arithmetic in the source is exact, so comparisons    *)
(* and differences carry over unchanged.                                   *)
(***************************************************************************)
EXTENDS Integers, Sequences, FiniteSets, TLC

VARIABLES
    \* ---- analyze_transfers: arguments
    mqtt_events, ftp_events,
    time_tolerance_seconds_stor, time_tolerance_seconds_conn,
    \* ---- analyze_transfers: locals
    pc, i, analysis_results, last_transfer_completion_time,
    found_stor, found_completion,
    \* ---- caller of analyze_transfers: invocations still to make, and the
    \*      values returned by the invocations made so far
    calls_left, returned,
    \* ---- calculate_metrics: arguments
    df, duration_s, rtt_field, camera_ips,
    \* ---- caller of calculate_metrics: invocations still to make, and the
    \*      outcomes (a value or a raised KeyError) of the invocations so far
    metrics_calls_left, metrics_returned,
    \* ---- run_analysis: the two input files, the position in the function,
    \*      how the process ended, the messages logged, the content of the
    \*      report file and the summary statistics written to it
    mqtt_log, ftp_csv, run_pc, exit_status, logged, report_file, summary,
    \* ---- run_analyzer: the configuration, what fails in the environment,
    \*      the position in the function, how the process ended, the
    \*      messages logged, the value of analyze_tshark_capture, the rows
    \*      appended to the worksheet and the number of files in the FTP
    \*      folder of each camera
    config, fault, az_pc, az_status, az_logged, analysis, worksheet,
    ftp_folders,
    \* ---- a second invocation of analyze_transfers, running while the
    \*      first one does: its MQTT list, its position, its locals and its
    \*      return value, as one record
    second,
    \* ---- run_publisher: the script that runs, config["repeats"], the cycle
    \*      counter, the position in the function, how the process ended,
    \*      how the loop was left, the publishes, disconnection and folder
    \*      management done so far, the publishes that returned an error
    \*      code, and the number of files in the FTP folder
    program, repeats, current_repeat, pub_pc, pub_status, loop_exit,
    pub_trace, failed_publishes, ftp_folder_files

corrInputs == <<mqtt_events, ftp_events,
                time_tolerance_seconds_stor, time_tolerance_seconds_conn>>
corrLocals == <<pc, i, analysis_results, last_transfer_completion_time,
                found_stor, found_completion>>
corrVars == <<corrInputs, corrLocals, calls_left, returned>>

metricsInputs == <<df, duration_s, rtt_field, camera_ips>>
metricsVars == <<metricsInputs, metrics_calls_left, metrics_returned>>

runInputs == <<mqtt_log, ftp_csv>>
runVars == <<runInputs, run_pc, exit_status, logged, report_file, summary>>

analyzerInputs == <<config, fault>>
analyzerVars == <<analyzerInputs, az_pc, az_status, az_logged,
                  analysis, worksheet, ftp_folders>>

publisherInputs == <<program, repeats>>
publisherVars == <<publisherInputs, current_repeat, pub_pc, pub_status,
                   loop_exit, pub_trace, failed_publishes, ftp_folder_files>>

vars == <<corrVars, metricsVars, runVars, analyzerVars, second, publisherVars>>

----------------------------------------------------------------------------
(* Bounds of the model *)

MaxTime == 3
MaxSignals == 3
MaxFtp == 3
MaxTolStor == 1
MaxTolConn == 1
MaxCalls == 2
MaxRows == 2
MaxDuration == 1

----------------------------------------------------------------------------
(* Values *)

\* Python's None for an optional timestamp (every real timestamp is >= 0).
None == -1

\* Python's None for the 'filename' of a non-STOR event.
NoFile == "None"

\* Python's None for found_stor / found_completion.
NoEvent == [type |-> "NONE", timestamp |-> None, filename |-> NoFile]

Times == 0 .. MaxTime

\* The names the STOR commands of the capture carry.
Filenames == {"img_a.jpg"}

\* The events parse_mqtt_log appends: 'true' or 'false' with a timestamp.
MqttEvent == [timestamp : Times, type : {"true", "false"}]

\* The events parse_wireshark_ftp_log appends; only STOR carries a filename.
FtpEvent ==
    [type : {"STOR"}, timestamp : Times, filename : Filenames]
    \cup [type : {"COMPLETION", "CONN_OPEN", "CONN_CLOSE"},
          timestamp : Times, filename : {NoFile}]

\* Both parsers return sorted(events, key=timestamp): non-decreasing
\* timestamps, equal timestamps in any (file) order.
IsSortedByTimestamp(s) ==
    \A k \in 1 .. Len(s) - 1 : s[k].timestamp <= s[k + 1].timestamp

SortedSeqs(S, n) ==
    UNION { { s \in [1 .. m -> S] : IsSortedByTimestamp(s) } : m \in 0 .. n }

----------------------------------------------------------------------------
(* analyze_transfers: the searches of one loop iteration *)

\* Variant: the window has no lower end (a STOR before the 'true' message
\* is accepted).
relevant_stors_NoLowerBound(mqtt_true_ts) ==
    SelectSeq(ftp_events,
              LAMBDA e : /\ e.type = "STOR"
                         /\ e.timestamp <= mqtt_true_ts + time_tolerance_seconds_stor)

\* Variant: the window is half open, [mqtt_true_ts, mqtt_true_ts + tol).
relevant_stors_ExclusiveEnd(mqtt_true_ts) ==
    SelectSeq(ftp_events,
              LAMBDA e : /\ e.type = "STOR"
                         /\ mqtt_true_ts <= e.timestamp
                         /\ e.timestamp < mqtt_true_ts + time_tolerance_seconds_stor)

\* relevant_stors: the STOR events inside [mqtt_true_ts, mqtt_true_ts + tol].
relevant_stors(mqtt_true_ts) ==
    SelectSeq(ftp_events,
              LAMBDA e : /\ e.type = "STOR"
                         /\ mqtt_true_ts <= e.timestamp
                         /\ e.timestamp <= mqtt_true_ts + time_tolerance_seconds_stor)

\* Variant: a STOR already matched by a record of analysis_results is taken
\* out of the search.
FindStorUnconsumed(mqtt_true_ts) ==
    LET free == SelectSeq(relevant_stors(mqtt_true_ts),
                          LAMBDA e : \A k \in 1 .. Len(analysis_results) :
                              analysis_results[k].ftp_stor_time # e.timestamp)
    IN IF free # <<>> THEN Head(free) ELSE NoEvent

\* found_stor = relevant_stors[0] if relevant_stors else None
FindStor(mqtt_true_ts) ==
    IF relevant_stors(mqtt_true_ts) # <<>>
    THEN Head(relevant_stors(mqtt_true_ts))
    ELSE NoEvent

\* Variant: a COMPLETION counts only within the connection tolerance of the
\* STOR.
IsCompletionAfterWithinTolerance(event, stor) ==
    /\ event.timestamp > stor.timestamp
    /\ event.timestamp - stor.timestamp <= time_tolerance_seconds_conn
    /\ event.type = "COMPLETION"

\* Variant: a COMPLETION with the timestamp of the STOR counts as well.
IsCompletionAtOrAfter(event, stor) ==
    event.timestamp >= stor.timestamp /\ event.type = "COMPLETION"

\* The first COMPLETION, in list order, strictly after the STOR.
IsCompletionAfter(event, stor) ==
    event.timestamp > stor.timestamp /\ event.type = "COMPLETION"

FindCompletion(stor) ==
    IF stor = NoEvent THEN NoEvent
    ELSE LET hits == { k \in 1 .. Len(ftp_events) :
                         IsCompletionAfter(ftp_events[k], stor) }
         IN IF hits = {} THEN NoEvent
            ELSE ftp_events[CHOOSE k \in hits : \A m \in hits : k <= m]

\* Variant: the scan for 'false' starts at the head of the list (range(len))
\* instead of behind the 'true' message.
NextFalseMqttTsFromStart(idx) ==
    LET hits == { j \in 1 .. Len(mqtt_events) :
                    mqtt_events[j].type = "false" }
    IN IF hits = {} THEN None
       ELSE mqtt_events[CHOOSE j \in hits : \A m \in hits : j <= m].timestamp

\* The first 'false' message after position idx of mqtt_events.
NextFalseMqttTs(idx) ==
    LET hits == { j \in idx + 1 .. Len(mqtt_events) :
                    mqtt_events[j].type = "false" }
    IN IF hits = {} THEN None
       ELSE mqtt_events[CHOOSE j \in hits : \A m \in hits : j <= m].timestamp

\* Variant: the nearest CONN_OPEN before the STOR, however far back.
ConnOpenedTimeNoTolerance(stor) ==
    LET hits == { k \in 1 .. Len(ftp_events) :
                    /\ ftp_events[k].timestamp < stor.timestamp
                    /\ ftp_events[k].type = "CONN_OPEN" }
    IN IF hits = {} THEN None
       ELSE ftp_events[CHOOSE k \in hits : \A m \in hits : k >= m].timestamp

\* Variant: a CONN_OPEN that a record of this invocation already carries is
\* passed over.
ConnOpenedTimeExclusive(stor) ==
    LET hits == { k \in 1 .. Len(ftp_events) :
                    /\ ftp_events[k].timestamp < stor.timestamp
                    /\ ftp_events[k].type = "CONN_OPEN"
                    /\ stor.timestamp - ftp_events[k].timestamp
                          <= time_tolerance_seconds_conn
                    /\ \A n \in 1 .. Len(analysis_results) :
                          analysis_results[n].connection_opened_time
                            # ftp_events[k].timestamp }
    IN IF hits = {} THEN None
       ELSE ftp_events[CHOOSE k \in hits : \A m \in hits : k >= m].timestamp

\* Scanning backwards: the last CONN_OPEN before the STOR that lies within
\* the connection tolerance (the break sits inside the tolerance test).
ConnOpenedTime(stor) ==
    LET hits == { k \in 1 .. Len(ftp_events) :
                    /\ ftp_events[k].timestamp < stor.timestamp
                    /\ ftp_events[k].type = "CONN_OPEN"
                    /\ stor.timestamp - ftp_events[k].timestamp
                          <= time_tolerance_seconds_conn }
    IN IF hits = {} THEN None
       ELSE ftp_events[CHOOSE k \in hits : \A m \in hits : k >= m].timestamp

\* Scanning forwards: the first CONN_CLOSE after the completion that lies
\* within the connection tolerance.
ConnClosedTime(completion) ==
    LET hits == { k \in 1 .. Len(ftp_events) :
                    /\ ftp_events[k].timestamp > completion.timestamp
                    /\ ftp_events[k].type = "CONN_CLOSE"
                    /\ ftp_events[k].timestamp - completion.timestamp
                          <= time_tolerance_seconds_conn }
    IN IF hits = {} THEN None
       ELSE ftp_events[CHOOSE k \in hits : \A m \in hits : k <= m].timestamp

CompletedAfterFalse(next_false_mqtt_ts, completion) ==
    next_false_mqtt_ts # None /\ completion.timestamp > next_false_mqtt_ts

OverlappedWithPrevious(mqtt_true_ts, last_completion) ==
    last_completion # None /\ mqtt_true_ts < last_completion

\* The dictionary appended to analysis_results.
TransferRecord(idx, stor, completion, last_completion) ==
    LET mqtt_true_ts == mqtt_events[idx].timestamp
        next_false_mqtt_ts == NextFalseMqttTs(idx)
        after_false == CompletedAfterFalse(next_false_mqtt_ts, completion)
    IN [ mqtt_true_time |-> mqtt_true_ts,
         ftp_stor_time |-> stor.timestamp,
         ftp_completion_time |-> completion.timestamp,
         transfer_duration_seconds |-> completion.timestamp - stor.timestamp,
         filename |-> stor.filename,
         next_false_mqtt_time |-> next_false_mqtt_ts,
         transfer_completed_after_false_signal |-> after_false,
         time_overlap_after_false_signal_seconds |->
             IF after_false
             THEN completion.timestamp - next_false_mqtt_ts
             ELSE None,
         time_true_to_transfer_start_seconds |-> stor.timestamp - mqtt_true_ts,
         connection_opened_time |-> ConnOpenedTime(stor),
         connection_closed_time |-> ConnClosedTime(completion),
         overlapped_with_previous_transfer |->
             OverlappedWithPrevious(mqtt_true_ts, last_completion) ]

----------------------------------------------------------------------------
(* analyze_transfers: the state machine *)

\* The arguments of analyze_transfers: two sorted event lists of at most
\* nSignals and nFtp events, a start tolerance (0 included) and a positive
\* connection tolerance.
CorrelateInputs(nSignals, nFtp) ==
    /\ mqtt_events \in SortedSeqs(MqttEvent, nSignals)
    /\ ftp_events \in SortedSeqs(FtpEvent, nFtp)
    /\ time_tolerance_seconds_stor \in 0 .. MaxTolStor
    /\ time_tolerance_seconds_conn \in 1 .. MaxTolConn

\* No invocation of analyze_transfers is running.
CorrelateIdle ==
    /\ pc = "idle"
    /\ i = 0
    /\ analysis_results = <<>>
    /\ last_transfer_completion_time = None
    /\ found_stor = NoEvent
    /\ found_completion = NoEvent
    /\ returned = <<>>

\* analyze_transfers is not part of the run.
CorrelateOff ==
    /\ mqtt_events = <<>>
    /\ ftp_events = <<>>
    /\ time_tolerance_seconds_stor = 0
    /\ time_tolerance_seconds_conn = 1
    /\ calls_left = 0
    /\ CorrelateIdle

\* Variant: the tracker is module-level state, not reset on entry.
CallKeepsTracker ==
    /\ pc = "idle"
    /\ calls_left > 0
    /\ calls_left' = calls_left - 1
    /\ pc' = "loop"
    /\ i' = 1
    /\ analysis_results' = <<>>
    /\ found_stor' = NoEvent
    /\ found_completion' = NoEvent
    /\ UNCHANGED <<corrInputs, last_transfer_completion_time,
                   returned, metricsVars, runVars,
                   analyzerVars, second, publisherVars>>

\* Entering analyze_transfers: analysis_results = [], the tracker = None.
Call ==
    /\ pc = "idle"
    /\ calls_left > 0
    /\ calls_left' = calls_left - 1
    /\ pc' = "loop"
    /\ i' = 1
    /\ analysis_results' = <<>>
    /\ last_transfer_completion_time' = None
    /\ found_stor' = NoEvent
    /\ found_completion' = NoEvent
    /\ UNCHANGED <<corrInputs, returned, metricsVars, runVars,
                   analyzerVars, second, publisherVars>>

\* Variant: the type test is missing, every event is matched like a 'true'.
SignalOffEmits ==
    /\ pc = "loop"
    /\ i <= Len(mqtt_events)
    /\ mqtt_events[i].type # "true"
    /\ LET stor == FindStor(mqtt_events[i].timestamp)
           completion == FindCompletion(stor)
       IN /\ found_stor' = stor
          /\ found_completion' = completion
          /\ IF stor # NoEvent /\ completion # NoEvent
             THEN /\ analysis_results' =
                        Append(analysis_results,
                               TransferRecord(i, stor, completion,
                                              last_transfer_completion_time))
                  /\ last_transfer_completion_time' = completion.timestamp
             ELSE UNCHANGED <<analysis_results, last_transfer_completion_time>>
    /\ i' = i + 1
    /\ UNCHANGED <<corrInputs, pc, calls_left, returned, metricsVars, runVars,
                   analyzerVars, second, publisherVars>>

\* An iteration whose event is not 'true': the body is not entered.
SignalOff ==
    /\ pc = "loop"
    /\ i <= Len(mqtt_events)
    /\ mqtt_events[i].type # "true"
    /\ i' = i + 1
    /\ UNCHANGED <<corrInputs, pc, analysis_results,
                   last_transfer_completion_time,
                   found_stor, found_completion,
                   calls_left, returned, metricsVars, runVars,
                   analyzerVars, second, publisherVars>>

\* Variant: the record is put at the head of analysis_results.
SignalOnEmitPrepends ==
    /\ pc = "loop"
    /\ i <= Len(mqtt_events)
    /\ mqtt_events[i].type = "true"
    /\ LET stor == FindStor(mqtt_events[i].timestamp)
           completion == FindCompletion(stor)
       IN /\ stor # NoEvent
          /\ completion # NoEvent
          /\ found_stor' = stor
          /\ found_completion' = completion
          /\ analysis_results' =
                <<TransferRecord(i, stor, completion,
                                 last_transfer_completion_time)>>
                \o analysis_results
          /\ last_transfer_completion_time' = completion.timestamp
    /\ i' = i + 1
    /\ UNCHANGED <<corrInputs, pc, calls_left, returned, metricsVars, runVars,
                   analyzerVars, second, publisherVars>>

\* An iteration for a 'true' event that finds a STOR and a COMPLETION.
SignalOnEmit ==
    /\ pc = "loop"
    /\ i <= Len(mqtt_events)
    /\ mqtt_events[i].type = "true"
    /\ LET stor == FindStor(mqtt_events[i].timestamp)
           completion == FindCompletion(stor)
       IN /\ stor # NoEvent
          /\ completion # NoEvent
          /\ found_stor' = stor
          /\ found_completion' = completion
          /\ analysis_results' =
                Append(analysis_results,
                       TransferRecord(i, stor, completion,
                                      last_transfer_completion_time))
          /\ last_transfer_completion_time' = completion.timestamp
    /\ i' = i + 1
    /\ UNCHANGED <<corrInputs, pc, calls_left, returned, metricsVars, runVars,
                   analyzerVars, second, publisherVars>>

\* Variant: a 'true' event without a transfer clears the tracker.
SignalOnSkipResetsTracker ==
    /\ pc = "loop"
    /\ i <= Len(mqtt_events)
    /\ mqtt_events[i].type = "true"
    /\ LET stor == FindStor(mqtt_events[i].timestamp)
           completion == FindCompletion(stor)
       IN /\ ~(stor # NoEvent /\ completion # NoEvent)
          /\ found_stor' = stor
          /\ found_completion' = completion
    /\ last_transfer_completion_time' = None
    /\ i' = i + 1
    /\ UNCHANGED <<corrInputs, pc, analysis_results,
                   calls_left, returned, metricsVars, runVars,
                   analyzerVars, second, publisherVars>>

\* Variant: a 'true' event with a STOR but no COMPLETION moves the tracker
\* to the STOR.
SignalOnSkipTracksStor ==
    /\ pc = "loop"
    /\ i <= Len(mqtt_events)
    /\ mqtt_events[i].type = "true"
    /\ LET stor == FindStor(mqtt_events[i].timestamp)
           completion == FindCompletion(stor)
       IN /\ ~(stor # NoEvent /\ completion # NoEvent)
          /\ found_stor' = stor
          /\ found_completion' = completion
          /\ last_transfer_completion_time' =
                IF stor # NoEvent THEN stor.timestamp
                ELSE last_transfer_completion_time
    /\ i' = i + 1
    /\ UNCHANGED <<corrInputs, pc, analysis_results,
                   calls_left, returned, metricsVars, runVars,
                   analyzerVars, second, publisherVars>>

\* An iteration for a 'true' event without a STOR or without a COMPLETION.
SignalOnSkip ==
    /\ pc = "loop"
    /\ i <= Len(mqtt_events)
    /\ mqtt_events[i].type = "true"
    /\ LET stor == FindStor(mqtt_events[i].timestamp)
           completion == FindCompletion(stor)
       IN /\ ~(stor # NoEvent /\ completion # NoEvent)
          /\ found_stor' = stor
          /\ found_completion' = completion
    /\ i' = i + 1
    /\ UNCHANGED <<corrInputs, pc, analysis_results,
                   last_transfer_completion_time,
                   calls_left, returned, metricsVars, runVars,
                   analyzerVars, second, publisherVars>>

\* return analysis_results
Return ==
    /\ pc = "loop"
    /\ i > Len(mqtt_events)
    /\ pc' = "idle"
    /\ returned' = Append(returned, analysis_results)
    /\ UNCHANGED <<corrInputs, i, analysis_results,
                   last_transfer_completion_time,
                   found_stor, found_completion,
                   calls_left, metricsVars, runVars,
                   analyzerVars, second, publisherVars>>

\* The caller takes out of the MQTT list a 'true' message for which the
\* invocation it made emitted no record (the else branch of the loop), to
\* invoke analyze_transfers again.
DropSkipped ==
    /\ pc = "idle"
    /\ Len(returned) = 1
    /\ calls_left > 0
    /\ \E k \in 1 .. Len(mqtt_events) :
          /\ mqtt_events[k].type = "true"
          /\ LET stor == FindStor(mqtt_events[k].timestamp)
             IN stor = NoEvent \/ FindCompletion(stor) = NoEvent
          /\ mqtt_events' =
                [ j \in 1 .. Len(mqtt_events) - 1 |->
                    IF j < k THEN mqtt_events[j] ELSE mqtt_events[j + 1] ]
    /\ UNCHANGED <<ftp_events, time_tolerance_seconds_stor,
                   time_tolerance_seconds_conn, corrLocals, calls_left,
                   returned, metricsVars, runVars, analyzerVars, second, publisherVars>>

NextCorrelate ==
    \/ Call
    \/ SignalOff
    \/ SignalOnEmit
    \/ SignalOnSkip
    \/ Return

----------------------------------------------------------------------------
(* calculate_metrics: the packet table *)

\* A table is [columns, nrows, cell]: the columns it has, its number of rows
\* and, for every recognised column, the cells of that column top to bottom
\* (<<>> for a column the table lacks).

CounterColumns ==
    { "tcp.analysis.retransmission", "tcp.analysis.zero_window",
      "tcp.analysis.window_full", "tcp.analysis.lost_segment",
      "tcp.analysis.duplicate_ack" }

\* The name get_rtt_field_name resolves, or None.
RttColumn == "tcp.analysis.ack_rtt"
NoRttField == "None"

\* The columns throughput and average RTT are computed from.
FloatColumns == {"frame.len", RttColumn}

\* The columns the connection timestamps are derived from: TCP level and
\* FTP level.
TcpColumns ==
    { "frame.time", "ip.src", "ip.dst",
      "tcp.flags.syn", "tcp.flags.fin", "tcp.flags.reset" }

FtpColumns == {"ftp.request.command", "ftp.response.code"}

TimestampColumns == TcpColumns \cup FtpColumns

Columns == CounterColumns \cup FloatColumns \cup TimestampColumns

\* pd.NaT, and a null RTT sample.
NaT == -1
NaN == -1

\* frame.time after pd.to_datetime, in ticks.
FrameTimes == 1 .. MaxRows

CameraIp == "192.168.1.10"
OtherIp == "192.168.1.200"

\* ftp.* cells after astype(str): a missing value reads 'nan'.
FtpCommands == {"nan", "USER", "QUIT"}
FtpResponseCodes == {"nan", "220", "230", "221"}

\* The cell values of a column (numeric columns after to_numeric/fillna(0)).
ColumnDomain(c) ==
    CASE c = "frame.time" -> FrameTimes
      [] c \in {"ip.src", "ip.dst"} -> {CameraIp, OtherIp}
      [] c = "ftp.request.command" -> FtpCommands
      [] c = "ftp.response.code" -> FtpResponseCodes
      [] c = "frame.len" -> {1, 2}
      [] c = RttColumn -> {NaN, 2}
      [] OTHER -> {0, 1}

ColumnCells(c, cols, n) ==
    IF c \in cols THEN [1 .. n -> ColumnDomain(c)] ELSE {<<>>}

\* The table with the given cells for its columns.
Table(cols, n, c1, c2, c3, c4, c5, c6, c7, c8, c9, c10, c11, c12, c13, c14, c15) ==
    [ columns |-> cols, nrows |-> n,
      cell |-> ( "tcp.analysis.retransmission" :> c1
              @@ "tcp.analysis.zero_window" :> c2
              @@ "tcp.analysis.window_full" :> c3
              @@ "tcp.analysis.lost_segment" :> c4
              @@ "tcp.analysis.duplicate_ack" :> c5
              @@ "frame.len" :> c6
              @@ RttColumn :> c7
              @@ "frame.time" :> c8
              @@ "ip.src" :> c9
              @@ "ip.dst" :> c10
              @@ "tcp.flags.syn" :> c11
              @@ "tcp.flags.fin" :> c12
              @@ "tcp.flags.reset" :> c13
              @@ "ftp.request.command" :> c14
              @@ "ftp.response.code" :> c15 ) ]

\* df is some table with the columns cols and n rows.
DfIsTable(cols, n) ==
    \E c1 \in ColumnCells("tcp.analysis.retransmission", cols, n),
       c2 \in ColumnCells("tcp.analysis.zero_window", cols, n),
       c3 \in ColumnCells("tcp.analysis.window_full", cols, n),
       c4 \in ColumnCells("tcp.analysis.lost_segment", cols, n),
       c5 \in ColumnCells("tcp.analysis.duplicate_ack", cols, n),
       c6 \in ColumnCells("frame.len", cols, n),
       c7 \in ColumnCells(RttColumn, cols, n),
       c8 \in ColumnCells("frame.time", cols, n),
       c9 \in ColumnCells("ip.src", cols, n),
       c10 \in ColumnCells("ip.dst", cols, n),
       c11 \in ColumnCells("tcp.flags.syn", cols, n),
       c12 \in ColumnCells("tcp.flags.fin", cols, n),
       c13 \in ColumnCells("tcp.flags.reset", cols, n),
       c14 \in ColumnCells("ftp.request.command", cols, n),
       c15 \in ColumnCells("ftp.response.code", cols, n) :
      df = Table(cols, n, c1, c2, c3, c4, c5, c6, c7, c8, c9, c10,
                 c11, c12, c13, c14, c15)

RECURSIVE SumSeq(_)
SumSeq(s) == IF s = <<>> THEN 0 ELSE Head(s) + SumSeq(Tail(s))

MinOf(S) == CHOOSE x \in S : \A y \in S : x <= y
MaxOf(S) == CHOOSE x \in S : \A y \in S : x >= y

\* A float result as an exact fraction num/den; 0.0 is 0/1.
Fraction(n, d) == [num |-> n, den |-> d]
ZeroFloat == Fraction(0, 1)

----------------------------------------------------------------------------
(* calculate_metrics: the function *)

\* int(df[col].sum()) if col in df.columns else 0
CounterSum(d, col) ==
    IF col \in d.columns THEN SumSeq(d.cell[col]) ELSE 0

\* Variant: megabits of 1000 * 1000 bits.
ThroughputDecimalMega(d, duration) ==
    IF duration > 0 /\ "frame.len" \in d.columns
    THEN Fraction(SumSeq(d.cell["frame.len"]) * 8, duration * 1000 * 1000)
    ELSE ZeroFloat

\* (total_bytes * 8) / (duration_s * 1024 * 1024), or 0.0
Throughput(d, duration) ==
    IF duration > 0 /\ "frame.len" \in d.columns
    THEN Fraction(SumSeq(d.cell["frame.len"]) * 8, duration * 1024 * 1024)
    ELSE ZeroFloat

\* df[rtt_field].dropna().mean() * 1000, or 0.0
AvgRttMs(d, rtt) ==
    IF rtt \in d.columns
    THEN LET samples == SelectSeq(d.cell[rtt], LAMBDA v : v # NaN)
         IN IF samples # <<>>
            THEN Fraction(SumSeq(samples) * 1000, Len(samples))
            ELSE ZeroFloat
    ELSE ZeroFloat

\* The outcome of one detection step: a timestamp (NaT when none was
\* found), or a KeyError raised by df[<missing column>].
Found(ts) == [raised |-> FALSE, ts |-> ts]
KeyError == [raised |-> TRUE, ts |-> NaT]

\* events['frame.time'].min() / .max() over the selected rows
FrameTimeMin(d, rows) ==
    IF "frame.time" \in d.columns
    THEN Found(MinOf({ d.cell["frame.time"][k] : k \in rows }))
    ELSE KeyError

FrameTimeMax(d, rows) ==
    IF "frame.time" \in d.columns
    THEN Found(MaxOf({ d.cell["frame.time"][k] : k \in rows }))
    ELSE KeyError

\* Variant: SYN rows are filtered like FIN/RESET rows, by source or (on a
\* table with the destination column) destination address.
SynEventsEitherAddress(d, ips) ==
    { k \in 1 .. d.nrows :
        /\ d.cell["tcp.flags.syn"][k] = 1
        /\ \/ d.cell["ip.src"][k] \in ips
           \/ "ip.dst" \in d.columns /\ d.cell["ip.dst"][k] \in ips }

\* syn_events: SYN set and source address among camera_ips.
SynEvents(d, ips) ==
    { k \in 1 .. d.nrows :
        d.cell["tcp.flags.syn"][k] = 1 /\ d.cell["ip.src"][k] \in ips }

\* Variant: the columns are read without testing that the table has them.
TcpOpenedUngated(d, ips) ==
    IF "tcp.flags.syn" \notin d.columns \/ "ip.src" \notin d.columns
    THEN KeyError
    ELSE IF SynEvents(d, ips) # {}
         THEN FrameTimeMin(d, SynEvents(d, ips))
         ELSE Found(NaT)

TcpOpened(d, ips) ==
    IF "tcp.flags.syn" \in d.columns /\ "ip.src" \in d.columns
    THEN IF SynEvents(d, ips) # {}
         THEN FrameTimeMin(d, SynEvents(d, ips))
         ELSE Found(NaT)
    ELSE Found(NaT)

\* fin_rst_events: FIN or RESET set and source or destination address
\* among camera_ips.
FinRstEvents(d, ips) ==
    { k \in 1 .. d.nrows :
        /\ d.cell["tcp.flags.fin"][k] = 1 \/ d.cell["tcp.flags.reset"][k] = 1
        /\ d.cell["ip.src"][k] \in ips \/ d.cell["ip.dst"][k] \in ips }

\* The guard tests the FIN, source and destination columns; the filter
\* also reads df['tcp.flags.reset'].
TcpClosed(d, ips) ==
    IF /\ "tcp.flags.fin" \in d.columns
       /\ "ip.src" \in d.columns
       /\ "ip.dst" \in d.columns
    THEN IF "tcp.flags.reset" \notin d.columns
         THEN KeyError
         ELSE IF FinRstEvents(d, ips) # {}
              THEN FrameTimeMax(d, FinRstEvents(d, ips))
              ELSE Found(NaT)
    ELSE Found(NaT)

\* str.startswith(('220', '230')), str.startswith('221'),
\* str.upper().str.contains(...) on the cell values of the model.
StartsWith220Or230(code) == code \in {"220", "230"}
StartsWith221(code) == code = "221"
ContainsUser(command) == command = "USER"
ContainsQuit(command) == command = "QUIT"

\* Variant: only the 220/230 responses open a connection, USER does not.
FtpOpenEventsResponsesOnly(d) ==
    { k \in 1 .. d.nrows : StartsWith220Or230(d.cell["ftp.response.code"][k]) }

\* ftp_open_events; df.get(<missing column>, empty Series) selects no row.
FtpOpenEvents(d) ==
    { k \in 1 .. d.nrows :
        \/ StartsWith220Or230(d.cell["ftp.response.code"][k])
        \/ /\ "ftp.request.command" \in d.columns
           /\ ContainsUser(d.cell["ftp.request.command"][k]) }

FallbackOpened(d, opened) ==
    IF opened.ts = NaT /\ "ftp.response.code" \in d.columns
    THEN IF FtpOpenEvents(d) # {}
         THEN FrameTimeMin(d, FtpOpenEvents(d))
         ELSE opened
    ELSE opened

\* ftp_close_events
FtpCloseEvents(d) ==
    { k \in 1 .. d.nrows :
        \/ ContainsQuit(d.cell["ftp.request.command"][k])
        \/ /\ "ftp.response.code" \in d.columns
           /\ StartsWith221(d.cell["ftp.response.code"][k]) }

FallbackClosed(d, closed) ==
    IF closed.ts = NaT /\ "ftp.request.command" \in d.columns
    THEN IF FtpCloseEvents(d) # {}
         THEN FrameTimeMax(d, FtpCloseEvents(d))
         ELSE closed
    ELSE closed

\* strftime(...)[:-3] if pd.notna(ts) else "": the tick, or the empty string.
EmptyString == -1
FormatTimestamp(ts) == IF ts # NaT THEN ts ELSE EmptyString

\* What an invocation hands to its caller: the metrics dictionary, or the
\* KeyError it raised (then there is no dictionary).
NoMetrics == [ total_retransmissions |-> -1, zero_window_count |-> -1,
               window_full_count |-> -1, lost_segments_count |-> -1,
               duplicate_ack_count |-> -1,
               measured_throughput_Mbps |-> Fraction(-1, 1),
               avg_rtt_ms |-> Fraction(-1, 1),
               ftp_conn_opened_timestamp |-> EmptyString,
               ftp_conn_closed_timestamp |-> EmptyString ]

Raised == [raised |-> TRUE, metrics |-> NoMetrics]
Returned(m) == [raised |-> FALSE, metrics |-> m]

calculate_metrics(d, duration, rtt, ips) ==
    LET tcp_opened == TcpOpened(d, ips)
        tcp_closed == TcpClosed(d, ips)
        opened == FallbackOpened(d, tcp_opened)
        closed == FallbackClosed(d, tcp_closed)
    IN IF tcp_opened.raised \/ tcp_closed.raised THEN Raised
       ELSE IF opened.raised \/ closed.raised THEN Raised
       ELSE Returned(
              [ total_retransmissions |->
                    CounterSum(d, "tcp.analysis.retransmission"),
                zero_window_count |->
                    CounterSum(d, "tcp.analysis.zero_window"),
                window_full_count |->
                    CounterSum(d, "tcp.analysis.window_full"),
                lost_segments_count |->
                    CounterSum(d, "tcp.analysis.lost_segment"),
                duplicate_ack_count |->
                    CounterSum(d, "tcp.analysis.duplicate_ack"),
                measured_throughput_Mbps |-> Throughput(d, duration),
                avg_rtt_ms |-> AvgRttMs(d, rtt),
                ftp_conn_opened_timestamp |-> FormatTimestamp(opened.ts),
                ftp_conn_closed_timestamp |-> FormatTimestamp(closed.ts) ])

----------------------------------------------------------------------------
(* calculate_metrics: the state machine *)

\* The arguments of calculate_metrics.  The tables enumerated, with up to
\* nRows rows:
\*   - any subset of the counter columns;
\*   - any subset of the frame-length and RTT columns, with every capture
\*     duration and RTT field name;
\*   - any subset of the timestamp columns, with fewer than nRows rows;
\*   - the six TCP-level columns and any subset of the two FTP columns,
\*     with nRows rows.
MetricsInputs(nRows) ==
    /\ \/ /\ \E cols \in SUBSET CounterColumns, n \in 0 .. nRows :
                DfIsTable(cols, n)
          /\ duration_s = MaxDuration
          /\ rtt_field = RttColumn
       \/ /\ \E cols \in SUBSET FloatColumns, n \in 0 .. nRows :
                DfIsTable(cols, n)
          /\ duration_s \in -1 .. MaxDuration
          /\ rtt_field \in {NoRttField, RttColumn}
       \/ /\ \E cols \in SUBSET TimestampColumns, n \in 0 .. nRows - 1 :
                DfIsTable(cols, n)
          /\ duration_s = MaxDuration
          /\ rtt_field = RttColumn
       \/ /\ \E ftp \in SUBSET FtpColumns :
                DfIsTable(TcpColumns \cup ftp, nRows)
          /\ duration_s = MaxDuration
          /\ rtt_field = RttColumn
    /\ camera_ips = {CameraIp}

\* calculate_metrics is not part of the run.
MetricsOff ==
    /\ df = [columns |-> {}, nrows |-> 0, cell |-> [c \in Columns |-> <<>>]]
    /\ duration_s = 0
    /\ rtt_field = NoRttField
    /\ camera_ips = {}
    /\ metrics_calls_left = 0
    /\ metrics_returned = <<>>

\* One invocation of calculate_metrics on the caller's table.
CalculateMetrics ==
    /\ metrics_calls_left > 0
    /\ metrics_calls_left' = metrics_calls_left - 1
    /\ metrics_returned' =
          Append(metrics_returned,
                 calculate_metrics(df, duration_s, rtt_field, camera_ips))
    /\ UNCHANGED <<metricsInputs, corrVars, runVars,
                   analyzerVars, second, publisherVars>>

NextMetrics == CalculateMetrics

----------------------------------------------------------------------------
(* run_analysis: the input files, the summary statistics *)

\* What open() / pd.read_csv find at MQTT_LOG_FILE and WIRESHARK_FTP_CSV:
\* no file, a file that cannot be read, a zero-byte CSV (EmptyDataError), a
\* CSV without the _ws.col.Time or _ws.col.Info column, or a file the
\* parser reads to its end (its events are mqtt_events / ftp_events; a line
\* or row that does not parse adds no event).
MqttLogStates == {"absent", "unreadable", "readable"}
FtpCsvStates == {"absent", "empty", "unreadable", "no_columns", "readable"}

\* The tolerances run_analysis passes, 10.0 s and 30.0 s, one tick being
\* 10 seconds.
RunTolStor == 1
RunTolConn == 3

\* The level of each message run_analysis and its parsers log.
Errors ==
    { "MQTT log file not found", "Error reading MQTT log file",
      "Wireshark FTP CSV file not found", "Wireshark FTP CSV file is empty",
      "Error reading Wireshark FTP CSV file", "Required columns not found" }

Warnings ==
    { "No messages found in MQTT log", "No relevant FTP events found" }

Infos == { "No successful FTP transfer correlations found", "Report saved" }

\* f"{x:.4f}" / f"{x:.2f}" of the non-negative quotient n / d: the number
\* of ten-thousandths / of hundredths, rounded to nearest.
RoundDiv(n, d) == (2 * n + d) \div (2 * d)
Format4f(n, d) == RoundDiv(n * 10000, d)
Format2f(n, d) == RoundDiv(n * 100, d)

\* The lists and counters the report loop fills from analysis_results.
total_transfer_durations(results) ==
    [ k \in 1 .. Len(results) |-> results[k].transfer_duration_seconds ]

time_true_to_start_durations(results) ==
    [ k \in 1 .. Len(results) |->
        results[k].time_true_to_transfer_start_seconds ]

\* Variant: the overlap of every record is collected, None counting as 0.
overlap_after_false_durations_AllRecords(results) ==
    [ k \in 1 .. Len(results) |->
        IF results[k].transfer_completed_after_false_signal
        THEN results[k].time_overlap_after_false_signal_seconds
        ELSE 0 ]

overlap_after_false_durations(results) ==
    LET flagged == SelectSeq(results,
                     LAMBDA r : r.transfer_completed_after_false_signal)
    IN [ k \in 1 .. Len(flagged) |->
           flagged[k].time_overlap_after_false_signal_seconds ]

transfers_after_false_count(results) ==
    Len(SelectSeq(results,
                  LAMBDA r : r.transfer_completed_after_false_signal))

overlapped_with_previous_count(results) ==
    Len(SelectSeq(results,
                  LAMBDA r : r.overlapped_with_previous_transfer))

SeqRange(q) == { q[k] : k \in 1 .. Len(q) }

\* sum(q) / len(q): a ZeroDivisionError for an empty list.
ZeroDivisionError == -2
Average4f(q) ==
    IF Len(q) = 0 THEN ZeroDivisionError ELSE Format4f(SumSeq(q), Len(q))
Percent2f(n, d) ==
    IF d = 0 THEN ZeroDivisionError ELSE Format2f(n * 100, d)

\* No "Summary Statistics" figures: nothing written, or the line "No
\* transfer durations to summarize."
NoSummary == [count |-> 0]

\* The figures under "--- Summary Statistics ---", times in
\* ten-thousandths of a second and percentages in hundredths, as printed.
SummaryStatistics(results) ==
    IF total_transfer_durations(results) = <<>> THEN NoSummary
    ELSE
      [ count |-> Len(results),
        avg_time_true_to_start |->
            Average4f(time_true_to_start_durations(results)),
        min_time_true_to_start |->
            Format4f(MinOf(SeqRange(time_true_to_start_durations(results))), 1),
        max_time_true_to_start |->
            Format4f(MaxOf(SeqRange(time_true_to_start_durations(results))), 1),
        avg_transfer_duration |->
            Average4f(total_transfer_durations(results)),
        min_transfer_duration |->
            Format4f(MinOf(SeqRange(total_transfer_durations(results))), 1),
        max_transfer_duration |->
            Format4f(MaxOf(SeqRange(total_transfer_durations(results))), 1),
        transfers_after_false |-> transfers_after_false_count(results),
        transfers_after_false_percent |->
            Percent2f(transfers_after_false_count(results), Len(results)),
        avg_overlap_after_false |->
            IF overlap_after_false_durations(results) # <<>>
            THEN Average4f(overlap_after_false_durations(results))
            ELSE None,
        max_overlap_after_false |->
            IF overlap_after_false_durations(results) # <<>>
            THEN Format4f(
                   MaxOf(SeqRange(overlap_after_false_durations(results))), 1)
            ELSE None,
        overlapped_with_previous |-> overlapped_with_previous_count(results),
        overlapped_with_previous_percent |->
            Percent2f(overlapped_with_previous_count(results), Len(results)) ]

----------------------------------------------------------------------------
(* run_analysis: the state machine *)

\* The files run_analysis finds, and the events the parsers read from them.
RunInputs(nSignals, nFtp) ==
    /\ mqtt_log \in MqttLogStates
    /\ ftp_csv \in FtpCsvStates
    /\ IF mqtt_log = "readable"
       THEN mqtt_events \in SortedSeqs(MqttEvent, nSignals)
       ELSE mqtt_events = <<>>
    /\ IF mqtt_log = "readable" /\ ftp_csv = "readable"
       THEN ftp_events \in SortedSeqs(FtpEvent, nFtp)
       ELSE ftp_events = <<>>
    /\ time_tolerance_seconds_stor = RunTolStor
    /\ time_tolerance_seconds_conn = RunTolConn

\* run_analysis has not been started; the report file holds what an
\* earlier run left.
RunIdle ==
    /\ run_pc = "start"
    /\ exit_status = "running"
    /\ logged = {}
    /\ report_file = "previous"
    /\ summary = NoSummary

\* run_analysis is not part of the run.
RunOff ==
    /\ mqtt_log = "absent"
    /\ ftp_csv = "absent"
    /\ run_pc = "off"
    /\ exit_status = "running"
    /\ logged = {}
    /\ report_file = "previous"
    /\ summary = NoSummary

\* setup_logging(OUTPUT_ANALYSIS_FILE): the FileHandler opens the report
\* file with mode 'w'; from here on the file holds the log.
SetupLogging ==
    /\ run_pc = "start"
    /\ run_pc' = "parse_mqtt"
    /\ report_file' = "log"
    /\ UNCHANGED <<runInputs, exit_status, logged, summary,
                   corrVars, metricsVars,
                   analyzerVars, second, publisherVars>>

\* sys.exit(1) after logging an error.
Exit1(message) ==
    /\ logged' = logged \cup {message}
    /\ exit_status' = "exit_1"
    /\ run_pc' = "done"

\* return after logging a warning or an info.
ReturnEarly(message) ==
    /\ logged' = logged \cup {message}
    /\ exit_status' = "returned"
    /\ run_pc' = "done"

\* parse_mqtt_log
ParseMqttLogFails ==
    /\ run_pc = "parse_mqtt"
    /\ mqtt_log # "readable"
    /\ Exit1(IF mqtt_log = "absent" THEN "MQTT log file not found"
             ELSE "Error reading MQTT log file")
    /\ UNCHANGED <<runInputs, report_file, summary, corrVars, metricsVars,
                   analyzerVars, second, publisherVars>>

ParseMqttLog ==
    /\ run_pc = "parse_mqtt"
    /\ mqtt_log = "readable"
    /\ run_pc' = "parse_ftp"
    /\ UNCHANGED <<runInputs, exit_status, logged, report_file, summary,
                   corrVars, metricsVars,
                   analyzerVars, second, publisherVars>>

\* Variant: a CSV that cannot be parsed is logged and read as no events.
ParseFtpLogFailsReturnsEmpty ==
    /\ run_pc = "parse_ftp"
    /\ ftp_csv # "readable"
    /\ logged' = logged \cup {"Error reading Wireshark FTP CSV file"}
    /\ run_pc' = "parsed"
    /\ UNCHANGED <<runInputs, exit_status, report_file, summary,
                   corrVars, metricsVars,
                   analyzerVars, second, publisherVars>>

\* parse_wireshark_ftp_log
ParseFtpLogFails ==
    /\ run_pc = "parse_ftp"
    /\ ftp_csv # "readable"
    /\ Exit1(CASE ftp_csv = "absent" -> "Wireshark FTP CSV file not found"
               [] ftp_csv = "empty" -> "Wireshark FTP CSV file is empty"
               [] ftp_csv = "no_columns" -> "Required columns not found"
               [] OTHER -> "Error reading Wireshark FTP CSV file")
    /\ UNCHANGED <<runInputs, report_file, summary, corrVars, metricsVars,
                   analyzerVars, second, publisherVars>>

ParseFtpLog ==
    /\ run_pc = "parse_ftp"
    /\ ftp_csv = "readable"
    /\ run_pc' = "parsed"
    /\ UNCHANGED <<runInputs, exit_status, logged, report_file, summary,
                   corrVars, metricsVars,
                   analyzerVars, second, publisherVars>>

\* if not mqtt_events: ... return / if not ftp_events: ... return
NoEvents ==
    /\ run_pc = "parsed"
    /\ mqtt_events = <<>> \/ ftp_events = <<>>
    /\ ReturnEarly(IF mqtt_events = <<>>
                   THEN "No messages found in MQTT log"
                   ELSE "No relevant FTP events found")
    /\ UNCHANGED <<runInputs, report_file, summary, corrVars, metricsVars,
                   analyzerVars, second, publisherVars>>

\* Variant: the two emptiness tests are missing.
CallAnalyzeTransfersUnguarded ==
    /\ run_pc = "parsed"
    /\ run_pc' = "analyzing"
    /\ calls_left' = 1
    /\ UNCHANGED <<runInputs, exit_status, logged, report_file, summary,
                   corrInputs, corrLocals, returned, metricsVars,
                   analyzerVars, second, publisherVars>>

\* analysis_results = analyze_transfers(mqtt_events, ftp_events, 10.0, 30.0)
CallAnalyzeTransfers ==
    /\ run_pc = "parsed"
    /\ mqtt_events # <<>>
    /\ ftp_events # <<>>
    /\ run_pc' = "analyzing"
    /\ calls_left' = 1
    /\ UNCHANGED <<runInputs, exit_status, logged, report_file, summary,
                   corrInputs, corrLocals, returned, metricsVars,
                   analyzerVars, second, publisherVars>>

\* if not analysis_results: ... return
NoCorrelations ==
    /\ run_pc = "analyzing"
    /\ pc = "idle"
    /\ Len(returned) = 1
    /\ returned[1] = <<>>
    /\ ReturnEarly("No successful FTP transfer correlations found")
    /\ UNCHANGED <<runInputs, report_file, summary, corrVars, metricsVars,
                   analyzerVars, second, publisherVars>>

\* Variant: the report is written whatever analyze_transfers returned.
WriteReportUnguarded ==
    /\ run_pc = "analyzing"
    /\ pc = "idle"
    /\ Len(returned) = 1
    /\ summary' = SummaryStatistics(returned[1])
    /\ report_file' = "report"
    /\ ReturnEarly("Report saved")
    /\ UNCHANGED <<runInputs, corrVars, metricsVars,
                   analyzerVars, second, publisherVars>>

\* The report: the details of every record, the summary statistics, and
\* the file written with mode 'w'.
WriteReport ==
    /\ run_pc = "analyzing"
    /\ pc = "idle"
    /\ Len(returned) = 1
    /\ returned[1] # <<>>
    /\ summary' = SummaryStatistics(returned[1])
    /\ report_file' = "report"
    /\ ReturnEarly("Report saved")
    /\ UNCHANGED <<runInputs, corrVars, metricsVars,
                   analyzerVars, second, publisherVars>>

NextRun ==
    \/ SetupLogging
    \/ ParseMqttLogFails
    \/ ParseMqttLog
    \/ ParseFtpLogFails
    \/ ParseFtpLog
    \/ NoEvents
    \/ CallAnalyzeTransfers
    \/ NextCorrelate
    \/ NoCorrelations
    \/ WriteReport

----------------------------------------------------------------------------
(* analyze_tshark_capture: the exported capture, the function *)

\* A second configured camera.
SecondCameraIp == "192.168.1.11"

CameraIps == {CameraIp, SecondCameraIp}

\* The packets of a capture: who sent it to whom, whether it carries SYN and
\* whether it is a retransmission.
CapturePackets ==
    [ src : CameraIps \cup {OtherIp}, dst : CameraIps \cup {OtherIp},
      syn : {0, 1}, retransmission : {0, 1} ]

\* The captures of up to n packets.
Captures(n) == UNION { [1 .. k -> CapturePackets] : k \in 0 .. n }

\* The table pd.read_csv yields for the exported capture, after the renaming
\* of frame.time_epoch and the cleaning of the numeric and string columns:
\* every field of tshark_fields is a column, the RTT column only when
\* get_rtt_field_name resolved one; packet k arrived at tick k, is one byte
\* long and carries no FTP command or response; an empty numeric cell is 0.
ExportedTable(packets, rtt) ==
    LET cols == IF rtt = RttColumn THEN Columns ELSE Columns \ {RttColumn}
        Cell(c, k) ==
            CASE c = "frame.time" -> k
              [] c = "ip.src" -> packets[k].src
              [] c = "ip.dst" -> packets[k].dst
              [] c = "tcp.flags.syn" -> packets[k].syn
              [] c = "tcp.analysis.retransmission" ->
                     packets[k].retransmission
              [] c = "frame.len" -> 1
              [] c \in FtpColumns -> "nan"
              [] OTHER -> 0
    IN [ columns |-> cols, nrows |-> Len(packets),
         cell |-> [ c \in Columns |->
                      IF c \in cols
                      THEN [ k \in 1 .. Len(packets) |-> Cell(c, k) ]
                      ELSE <<>> ] ]

default_metrics ==
    [ total_retransmissions |-> 0, zero_window_count |-> 0,
      window_full_count |-> 0, avg_rtt_ms |-> ZeroFloat,
      lost_segments_count |-> 0, duplicate_ack_count |-> 0,
      measured_throughput_Mbps |-> ZeroFloat, num_cameras_detected |-> 0,
      ftp_conn_opened_timestamp |-> EmptyString,
      ftp_conn_closed_timestamp |-> EmptyString ]

\* metrics["num_cameras_detected"] = n
WithCamerasDetected(m, n) ==
    [ total_retransmissions |-> m.total_retransmissions,
      zero_window_count |-> m.zero_window_count,
      window_full_count |-> m.window_full_count,
      avg_rtt_ms |-> m.avg_rtt_ms,
      lost_segments_count |-> m.lost_segments_count,
      duplicate_ack_count |-> m.duplicate_ack_count,
      measured_throughput_Mbps |-> m.measured_throughput_Mbps,
      num_cameras_detected |-> n,
      ftp_conn_opened_timestamp |-> m.ftp_conn_opened_timestamp,
      ftp_conn_closed_timestamp |-> m.ftp_conn_closed_timestamp ]

\* (df[col] == ip).any(), or a KeyError for a missing column
AnyEquals(d, col, ip) == \E k \in 1 .. d.nrows : d.cell[col][k] = ip

\* Variant: a camera is detected only as a sender.
detected_ips_SourceOnly(d, configured_camera_ips) ==
    { ip \in configured_camera_ips : AnyEquals(d, "ip.src", ip) }

\* {ip for ip in configured_camera_ips
\*     if (df['ip.src'] == ip).any() or (df['ip.dst'] == ip).any()}
detected_ips(d, configured_camera_ips) ==
    { ip \in configured_camera_ips :
        AnyEquals(d, "ip.src", ip) \/ AnyEquals(d, "ip.dst", ip) }

\* df[(df['ip.src'] == ip) | (df['ip.dst'] == ip)].copy()
df_cam(d, ip) ==
    LET keep == SelectSeq([ k \in 1 .. d.nrows |-> k ],
                          LAMBDA k : \/ d.cell["ip.src"][k] = ip
                                     \/ d.cell["ip.dst"][k] = ip)
    IN [ columns |-> d.columns, nrows |-> Len(keep),
         cell |-> [ c \in Columns |->
                      IF c \in d.columns
                      THEN [ j \in 1 .. Len(keep) |-> d.cell[c][keep[j]] ]
                      ELSE <<>> ] ]

\* The orders in which "for ip in detected_ips" can visit a set.
IterationOrders(S) ==
    { q \in [1 .. Cardinality(S) -> S] :
        \A p, r \in DOMAIN q : p # r => q[p] # q[r] }

\* What analyze_tshark_capture returns when the export or the analysis
\* raised.
DefaultResults == [overall |-> default_metrics, per_camera |-> <<>>]

\* analyze_tshark_capture(capture_file_path, capture_duration_s,
\* configured_camera_ips), duration and ips being the last two arguments:
\* exported tells whether the tshark export succeeded, readable whether
\* pd.read_csv read the exported file, d is the table read and order the
\* iteration order of detected_ips.
analyze_tshark_capture(exported, readable, d, duration, rtt, ips, order) ==
    IF ~exported THEN DefaultResults
    ELSE IF ~readable \/ ~({"ip.src", "ip.dst"} \subseteq d.columns)
    THEN DefaultResults
    ELSE
      LET overall_metrics ==
              calculate_metrics(d, duration, rtt, ips)
          cam_metrics(ip) ==
              calculate_metrics(df_cam(d, ip), duration, rtt, {ip})
      IN IF \/ overall_metrics.raised
            \/ \E p \in DOMAIN order : cam_metrics(order[p]).raised
         THEN DefaultResults
         ELSE [ overall |->
                    WithCamerasDetected(
                        overall_metrics.metrics,
                        Cardinality(detected_ips(d, ips))),
                per_camera |->
                    [ p \in DOMAIN order |->
                        [ ip |-> order[p],
                          metrics |->
                              WithCamerasDetected(
                                  cam_metrics(order[p]).metrics, 1) ] ] ]

----------------------------------------------------------------------------
(* run_analyzer: the worksheet rows *)

\* The header row init_google_sheet gives a worksheet it creates.
headers ==
    << "Timestamp", "Camera_IP", "interval_true_false_ms",
       "interval_false_true_ms", "repeats_configured", "files_before_delete",
       "files_after_delete", "avg_image_size_MB", "total_retransmissions",
       "zero_window_count", "window_full_count", "avg_rtt_ms",
       "lost_segments_count", "duplicate_ack_count",
       "measured_throughput_Mbps", "num_cameras_detected",
       "ftp_conn_opened_timestamp", "ftp_conn_closed_timestamp",
       "FPS_Manual" >>

\* The number of files a camera's folder holds when the run starts: none
\* (or no folder), or two files of 1024 bytes.
FolderSizes == {0, 2}

\* manage_specific_ftp_folder, for a folder of n files: the files are
\* counted, measured and removed.
manage_specific_ftp_folder(n) ==
    [ files_before |-> n,
      avg_bytes_per_file |-> IF n > 0 THEN 1024 ELSE 0,
      files_after |-> 0 ]

\* What manage_specific_ftp_folder reports for a camera's folder: no folder
\* (or an error), or two files of one KiB each, all deleted.
FolderReports == { manage_specific_ftp_folder(n) : n \in FolderSizes }

\* sum(term[ip] for ip in ips)
RECURSIVE SumOver(_, _)
SumOver(term, ips) ==
    IF ips = {} THEN 0
    ELSE LET ip == CHOOSE x \in ips : TRUE
         IN term[ip] + SumOver(term, ips \ {ip})

\* One cell of a row: the quantity the code puts there, and its value.
Cell(quantity, v) == [quantity |-> quantity, value |-> v]

\* datetime.now(), formatted.
current_timestamp == "now"

\* The cells of a row that carry the metrics of one analysis.
MetricsCells(m) ==
    << Cell("total_retransmissions", m.total_retransmissions),
       Cell("zero_window_count", m.zero_window_count),
       Cell("window_full_count", m.window_full_count),
       Cell("avg_rtt_ms", Format2f(m.avg_rtt_ms.num, m.avg_rtt_ms.den)),
       Cell("lost_segments_count", m.lost_segments_count),
       Cell("duplicate_ack_count", m.duplicate_ack_count),
       Cell("measured_throughput_Mbps",
            Format4f(m.measured_throughput_Mbps.num,
                     m.measured_throughput_Mbps.den)),
       Cell("num_cameras_detected", m.num_cameras_detected),
       Cell("ftp_conn_opened_timestamp", m.ftp_conn_opened_timestamp),
       Cell("ftp_conn_closed_timestamp", m.ftp_conn_closed_timestamp) >>

\* The row of the whole capture.
overall_row(cfg, per_camera_ftp_data, o_metrics) ==
    LET ips == DOMAIN per_camera_ftp_data
        total_files_before ==
            SumOver([ip \in ips |-> per_camera_ftp_data[ip].files_before],
                    ips)
        total_files_after ==
            SumOver([ip \in ips |-> per_camera_ftp_data[ip].files_after],
                    ips)
        total_bytes ==
            SumOver([ip \in ips |->
                       per_camera_ftp_data[ip].avg_bytes_per_file
                       * per_camera_ftp_data[ip].files_before], ips)
        avg_size_mb ==
            IF total_files_before > 0
            THEN Format4f(total_bytes, total_files_before * 1024 * 1024)
            ELSE 0
    IN << Cell("current_timestamp", current_timestamp),
          Cell("camera", "Overall"),
          Cell("interval_true_false", cfg.interval_true_false),
          Cell("interval_false_true", cfg.interval_false_true),
          Cell("repeats", cfg.repeats),
          Cell("files_before", total_files_before),
          Cell("files_after", total_files_after),
          Cell("avg_size_mb", avg_size_mb) >>
       \o MetricsCells(o_metrics)
       \o << Cell("", "") >>

\* Variant: a camera's row lists the average RTT after the two counters
\* that follow it in the header.
cam_row_RttMoved(cfg, ip, ftp_data, c_metrics) ==
    << Cell("current_timestamp", current_timestamp),
       Cell("camera", ip),
       Cell("interval_true_false", cfg.interval_true_false),
       Cell("interval_false_true", cfg.interval_false_true),
       Cell("repeats", cfg.repeats),
       Cell("files_before", ftp_data.files_before),
       Cell("files_after", ftp_data.files_after),
       Cell("avg_size_mb",
            Format4f(ftp_data.avg_bytes_per_file, 1024 * 1024)) >>
    \o SubSeq(MetricsCells(c_metrics), 1, 3)
    \o SubSeq(MetricsCells(c_metrics), 5, 6)
    \o SubSeq(MetricsCells(c_metrics), 4, 4)
    \o SubSeq(MetricsCells(c_metrics), 7, 10)
    \o << Cell("", "") >>

\* The row of one detected camera.
cam_row(cfg, ip, ftp_data, c_metrics) ==
    << Cell("current_timestamp", current_timestamp),
       Cell("camera", ip),
       Cell("interval_true_false", cfg.interval_true_false),
       Cell("interval_false_true", cfg.interval_false_true),
       Cell("repeats", cfg.repeats),
       Cell("files_before", ftp_data.files_before),
       Cell("files_after", ftp_data.files_after),
       Cell("avg_size_mb",
            Format4f(ftp_data.avg_bytes_per_file, 1024 * 1024)) >>
    \o MetricsCells(c_metrics)
    \o << Cell("", "") >>

\* rows_to_append for the value of analyze_tshark_capture (<<>> for None).
rows_to_append(cfg, per_camera_ftp_data, tshark_results) ==
    IF tshark_results = <<>> THEN <<>>
    ELSE LET results == tshark_results[1]
         IN << overall_row(cfg, per_camera_ftp_data, results.overall) >>
            \o [ p \in DOMAIN results.per_camera |->
                   cam_row(cfg, results.per_camera[p].ip,
                           per_camera_ftp_data[results.per_camera[p].ip],
                           results.per_camera[p].metrics) ]

----------------------------------------------------------------------------
(* run_analyzer: the state machine *)

\* What goes wrong in the environment of one run (one thing at most): the
\* Google credentials file is missing, the Sheets API cannot be reached,
\* the MQTT broker cannot be reached, tshark cannot be started, publishing
\* raises or is interrupted, stopping tshark raises, tshark left no capture
\* file, the export of the capture fails, the exported CSV cannot be read,
\* appending to the worksheet fails.
Faults ==
    { "none", "credentials_missing", "sheets_unreachable",
      "broker_unreachable", "tshark_start_failed", "publish_failed",
      "interrupted", "tshark_stop_failed", "no_capture_file",
      "export_failed", "csv_unreadable", "append_failed" }

\* The configurations load_config returns: the defaults, with the capture
\* switched on or off and its interface set or not.
Configs ==
    [ tshark_enabled : BOOLEAN, tshark_interface : {"", "eth0"},
      interval_true_false : {5000}, interval_false_true : {10000},
      repeats : {1} ]

\* The level of each message run_analyzer and its helpers log.
AnalyzerCriticals ==
    { "Google credentials file not found",
      "Failed to connect to Google Sheets API",
      "Could not connect to MQTT broker",
      "Unhandled error during MQTT publishing" }

AnalyzerErrors ==
    { "tshark_interface is not set", "Failed to start tshark",
      "Tshark export failed", "Error analyzing tshark CSV",
      "Failed to append data to Google Sheet" }

AnalyzerInfos ==
    { "Test interrupted by user", "Successfully appended rows",
      "Analyzer tool finished operations" }

\* tshark_process is a process (not None) after the start of the capture.
TsharkStarted ==
    /\ config.tshark_enabled
    /\ config.tshark_interface # ""
    /\ fault # "tshark_start_failed"

\* os.path.exists(config["tshark_temp_capture_file"]): the file tshark
\* wrote (the previous run removed its own).
CaptureFileExists == TsharkStarted /\ fault # "no_capture_file"

\* The configuration, the fault and the capture one run meets.  Captures
\* of up to nPackets packets are enumerated for the runs that analyse one
\* and then build their rows undisturbed; the other runs that analyse one
\* meet captures of at most one packet.
AnalyzerInputs(nPackets) ==
    /\ config \in Configs
    /\ fault \in Faults
    /\ duration_s = MaxDuration
    /\ IF CaptureFileExists
       THEN /\ rtt_field \in {NoRttField, RttColumn}
            /\ camera_ips \in SUBSET CameraIps
            /\ \E packets \in
                    Captures(IF fault \in {"none", "append_failed"}
                             THEN nPackets ELSE 1) :
                  df = ExportedTable(packets, rtt_field)
       ELSE /\ rtt_field = RttColumn
            /\ camera_ips = {CameraIp}
            /\ df = ExportedTable(<<>>, RttColumn)
    /\ metrics_calls_left = 0
    /\ metrics_returned = <<>>

\* run_analyzer has not been started.
AnalyzerIdle ==
    /\ az_pc = "init_google_sheet"
    /\ az_status = "running"
    /\ az_logged = {}
    /\ analysis = <<>>
    /\ worksheet = <<>>
    /\ ftp_folders \in [CameraIps -> FolderSizes]

\* run_analyzer is not part of the run.
AnalyzerOff ==
    /\ config = [ tshark_enabled |-> FALSE, tshark_interface |-> "",
                  interval_true_false |-> 5000,
                  interval_false_true |-> 10000, repeats |-> 1 ]
    /\ fault = "none"
    /\ az_pc = "off"
    /\ az_status = "running"
    /\ az_logged = {}
    /\ analysis = <<>>
    /\ worksheet = <<>>
    /\ ftp_folders = [ip \in CameraIps |-> 0]

\* logging.critical(...) and sys.exit(1)
AnalyzerExit1(message) ==
    /\ az_logged' = az_logged \cup {message}
    /\ az_status' = "exit_1"
    /\ az_pc' = "done"
    /\ UNCHANGED <<analyzerInputs, analysis, worksheet, ftp_folders,
                   corrVars, metricsVars, runVars, second, publisherVars>>

\* The next step of the function, after logging the given messages.
AnalyzerStep(to, messages) ==
    /\ az_pc' = to
    /\ az_logged' = az_logged \cup messages
    /\ UNCHANGED <<analyzerInputs, az_status, analysis, worksheet,
                   ftp_folders, corrVars, metricsVars, runVars, second, publisherVars>>

\* init_google_sheet
InitGoogleSheetExits ==
    /\ az_pc = "init_google_sheet"
    /\ fault \in {"credentials_missing", "sheets_unreachable"}
    /\ AnalyzerExit1(IF fault = "credentials_missing"
                     THEN "Google credentials file not found"
                     ELSE "Failed to connect to Google Sheets API")

InitGoogleSheet ==
    /\ az_pc = "init_google_sheet"
    /\ fault \notin {"credentials_missing", "sheets_unreachable"}
    /\ AnalyzerStep("connect", {})

\* Variant: a broker that cannot be reached is logged and the run goes on.
ConnectExitsLogsOnly ==
    /\ az_pc = "connect"
    /\ fault = "broker_unreachable"
    /\ AnalyzerStep("start_tshark", {"Could not connect to MQTT broker"})

\* client.connect(...); client.loop_start()
ConnectExits ==
    /\ az_pc = "connect"
    /\ fault = "broker_unreachable"
    /\ AnalyzerExit1("Could not connect to MQTT broker")

Connect ==
    /\ az_pc = "connect"
    /\ fault # "broker_unreachable"
    /\ AnalyzerStep("start_tshark", {})

\* The start of the capture.
StartTshark ==
    /\ az_pc = "start_tshark"
    /\ AnalyzerStep("publish",
          IF ~config.tshark_enabled THEN {}
          ELSE IF config.tshark_interface = ""
          THEN {"tshark_interface is not set"}
          ELSE IF fault = "tshark_start_failed"
          THEN {"Failed to start tshark"}
          ELSE {})

\* The publication cycles, with their except clauses, and the disconnection
\* that opens the finally clause.
Publish ==
    /\ az_pc = "publish"
    /\ AnalyzerStep("stop_tshark",
          IF fault = "publish_failed"
          THEN {"Unhandled error during MQTT publishing"}
          ELSE IF fault = "interrupted" THEN {"Test interrupted by user"}
          ELSE {})

\* Stopping a capture that still runs: os.killpg / communicate(timeout=10)
\* stand in the finally clause outside any try, so what they raise leaves
\* run_analyzer.
StopTsharkRaises ==
    /\ az_pc = "stop_tshark"
    /\ TsharkStarted
    /\ fault = "tshark_stop_failed"
    /\ az_status' = "raised"
    /\ az_pc' = "done"
    /\ UNCHANGED <<analyzerInputs, az_logged, analysis, worksheet,
                   ftp_folders, corrVars, metricsVars, runVars, second, publisherVars>>

StopTshark ==
    /\ az_pc = "stop_tshark"
    /\ ~(TsharkStarted /\ fault = "tshark_stop_failed")
    /\ AnalyzerStep("analyze", {})

\* The messages of one analysis and one append.
AnalysisMessages(analysed, rows) ==
    (IF analysed /\ fault = "export_failed"
     THEN {"Tshark export failed"} ELSE {})
    \cup (IF analysed /\ fault = "csv_unreadable"
          THEN {"Error analyzing tshark CSV"} ELSE {})
    \cup (IF rows # <<>>
          THEN IF fault = "append_failed"
               THEN {"Failed to append data to Google Sheet"}
               ELSE {"Successfully appended rows"}
          ELSE {})
    \cup {"Analyzer tool finished operations"}

\* The rest of the finally clause: the FTP folders of the configured
\* cameras are measured and emptied, the capture is analysed if there is
\* one, the rows are built and appended, the capture file is removed.
AnalyzeAndAppend ==
    /\ az_pc = "analyze"
    /\ \E order \in IterationOrders(detected_ips(df, camera_ips)) :
         LET per_camera_ftp_data ==
                 [ip \in camera_ips |->
                     manage_specific_ftp_folder(ftp_folders[ip])]
             analysed == config.tshark_enabled /\ CaptureFileExists
             tshark_results ==
                 IF analysed
                 THEN << analyze_tshark_capture(
                             fault # "export_failed",
                             fault # "csv_unreadable",
                             df, duration_s, rtt_field, camera_ips, order) >>
                 ELSE <<>>
             rows == rows_to_append(config, per_camera_ftp_data,
                                    tshark_results)
         IN /\ analysis' = tshark_results
            /\ worksheet' = IF fault = "append_failed" THEN worksheet
                            ELSE worksheet \o rows
            /\ az_logged' = az_logged \cup AnalysisMessages(analysed, rows)
    /\ ftp_folders' = [ip \in CameraIps |->
                          IF ip \in camera_ips THEN 0 ELSE ftp_folders[ip]]
    /\ az_status' = "finished"
    /\ az_pc' = "done"
    /\ UNCHANGED <<analyzerInputs, corrVars, metricsVars, runVars, second, publisherVars>>

NextAnalyzer ==
    \/ InitGoogleSheetExits
    \/ InitGoogleSheet
    \/ ConnectExits
    \/ Connect
    \/ StartTshark
    \/ Publish
    \/ StopTsharkRaises
    \/ StopTshark
    \/ AnalyzeAndAppend

----------------------------------------------------------------------------
(* analyze_transfers: a second invocation interleaved with the first *)

\* The names of analyze_transfers are locals: a second invocation, on
\* another MQTT list (and the same FTP log and tolerances), has its own
\* position, result list and tracker, held in the record `second`.

\* No second invocation is part of the run.
SecondOff ==
    second = [ mqtt_events |-> <<>>, pc |-> "off", i |-> 0,
               analysis_results |-> <<>>,
               last_transfer_completion_time |-> None,
               returned |-> <<>> ]

\* The second invocation has not been entered; its MQTT list has at most
\* nSignals messages.
SecondIdle(nSignals) ==
    \E mq \in SortedSeqs(MqttEvent, nSignals) :
        second = [ mqtt_events |-> mq, pc |-> "idle", i |-> 0,
                   analysis_results |-> <<>>,
                   last_transfer_completion_time |-> None,
                   returned |-> <<>> ]

\* Variant: the tracker is module-level state, the second invocation reads
\* the one the first invocation writes.
SecondTrackerShared == last_transfer_completion_time

\* The tracker the second invocation reads: its own local.
SecondTracker == second.last_transfer_completion_time

\* The first 'false' message after position idx of the list mq.
NextFalseMqttTsIn(mq, idx) ==
    LET hits == { j \in idx + 1 .. Len(mq) : mq[j].type = "false" }
    IN IF hits = {} THEN None
       ELSE mq[CHOOSE j \in hits : \A m \in hits : j <= m].timestamp

\* The dictionary appended to analysis_results, for the message at position
\* idx of the list mq.
TransferRecordIn(mq, idx, stor, completion, last_completion) ==
    LET mqtt_true_ts == mq[idx].timestamp
        next_false_mqtt_ts == NextFalseMqttTsIn(mq, idx)
        after_false == CompletedAfterFalse(next_false_mqtt_ts, completion)
    IN [ mqtt_true_time |-> mqtt_true_ts,
         ftp_stor_time |-> stor.timestamp,
         ftp_completion_time |-> completion.timestamp,
         transfer_duration_seconds |-> completion.timestamp - stor.timestamp,
         filename |-> stor.filename,
         next_false_mqtt_time |-> next_false_mqtt_ts,
         transfer_completed_after_false_signal |-> after_false,
         time_overlap_after_false_signal_seconds |->
             IF after_false
             THEN completion.timestamp - next_false_mqtt_ts
             ELSE None,
         time_true_to_transfer_start_seconds |-> stor.timestamp - mqtt_true_ts,
         connection_opened_time |-> ConnOpenedTime(stor),
         connection_closed_time |-> ConnClosedTime(completion),
         overlapped_with_previous_transfer |->
             OverlappedWithPrevious(mqtt_true_ts, last_completion) ]

\* Entering the second invocation: analysis_results = [], the tracker = None.
SecondCall ==
    /\ second.pc = "idle"
    /\ second' = [second EXCEPT !.pc = "loop", !.i = 1,
                                !.analysis_results = <<>>,
                                !.last_transfer_completion_time = None]
    /\ UNCHANGED <<corrVars, metricsVars, runVars, analyzerVars,
                   publisherVars>>

\* One iteration of the second invocation's loop.
SecondIteration ==
    /\ second.pc = "loop"
    /\ second.i <= Len(second.mqtt_events)
    /\ LET mqtt_event == second.mqtt_events[second.i]
           stor == FindStor(mqtt_event.timestamp)
           completion == FindCompletion(stor)
       IN IF mqtt_event.type = "true" /\ stor # NoEvent
             /\ completion # NoEvent
          THEN second' =
                 [second EXCEPT
                    !.i = @ + 1,
                    !.analysis_results =
                        Append(@, TransferRecordIn(second.mqtt_events,
                                                   second.i, stor, completion,
                                                   SecondTracker)),
                    !.last_transfer_completion_time = completion.timestamp]
          ELSE second' = [second EXCEPT !.i = @ + 1]
    /\ UNCHANGED <<corrVars, metricsVars, runVars, analyzerVars,
                   publisherVars>>

\* return analysis_results, in the second invocation.
SecondReturn ==
    /\ second.pc = "loop"
    /\ second.i > Len(second.mqtt_events)
    /\ second' = [second EXCEPT !.pc = "returned",
                                !.returned = <<second.analysis_results>>]
    /\ UNCHANGED <<corrVars, metricsVars, runVars, analyzerVars,
                   publisherVars>>

\* Either invocation takes a step.
NextPair ==
    \/ NextCorrelate
    \/ SecondCall
    \/ SecondIteration
    \/ SecondReturn

----------------------------------------------------------------------------
(* run_publisher: the state machine of the two publisher scripts *)

\* The two scripts with a run_publisher: mqtt_interval_publisher.py, whose
\* finally clause manages the FTP folder, and triggering_manager.py, the
\* same function without folder management.
Programs == {"mqtt_interval_publisher", "triggering_manager"}

\* config["repeats"]: -1 (the default) or a number of cycles.
Infinite == -1
MaxRepeats == 2

\* The cycles a run without an end is followed for.
MaxCycles == 3

\* The publishes of pub_trace.
Publishes == SelectSeq(pub_trace, LAMBDA a : a \in {"true", "false"})

\* The script, its repeats setting and the folder one run meets.
PublisherInputs ==
    /\ program \in Programs
    /\ repeats \in {Infinite} \cup 0 .. MaxRepeats
    /\ ftp_folder_files \in FolderSizes

\* run_publisher has not been started.
PublisherIdle ==
    /\ current_repeat = 0
    /\ pub_pc = "connect"
    /\ pub_status = "running"
    /\ loop_exit = "none"
    /\ pub_trace = <<>>
    /\ failed_publishes = 0

\* No publisher script is part of the run.
PublisherOff ==
    /\ program = "mqtt_interval_publisher"
    /\ repeats = Infinite
    /\ ftp_folder_files = 0
    /\ current_repeat = 0
    /\ pub_pc = "off"
    /\ pub_status = "running"
    /\ loop_exit = "none"
    /\ pub_trace = <<>>
    /\ failed_publishes = 0

\* client.connect raises: logging.error and sys.exit(1), before the try of
\* the loop.
PublisherConnectExits ==
    /\ pub_pc = "connect"
    /\ pub_pc' = "done"
    /\ pub_status' = "exit_1"
    /\ UNCHANGED <<publisherInputs, current_repeat, loop_exit, pub_trace,
                   failed_publishes, ftp_folder_files,
                   corrVars, metricsVars, runVars, analyzerVars, second>>

\* client.connect(...); client.loop_start(); current_repeat = 0
PublisherConnect ==
    /\ pub_pc = "connect"
    /\ pub_pc' = "loop"
    /\ current_repeat' = 0
    /\ UNCHANGED <<publisherInputs, pub_status, loop_exit, pub_trace,
                   failed_publishes, ftp_folder_files,
                   corrVars, metricsVars, runVars, analyzerVars, second>>

\* Variant: the loop runs while current_repeat <= repeats.
WhileConditionInclusive == repeats = Infinite \/ current_repeat <= repeats

\* while repeats == -1 or current_repeat < repeats
WhileCondition == repeats = Infinite \/ current_repeat < repeats

\* The test of the while loop: one more cycle, or the end of the loop.  A
\* run without an end is followed for MaxCycles cycles.
LoopTest ==
    /\ pub_pc = "loop"
    /\ IF WhileCondition
       THEN /\ Len(Publishes) < 2 * MaxCycles
            /\ pub_pc' = "publish_true"
            /\ UNCHANGED loop_exit
       ELSE /\ pub_pc' = "finally"
            /\ loop_exit' = "normal"
    /\ UNCHANGED <<publisherInputs, current_repeat, pub_status, pub_trace,
                   failed_publishes, ftp_folder_files,
                   corrVars, metricsVars, runVars, analyzerVars, second>>

\* client.publish(topic, true_message): the return code is logged as an
\* info or as an error; time.sleep(interval_tf_s).
PublishTrue ==
    /\ pub_pc = "publish_true"
    /\ pub_trace' = Append(pub_trace, "true")
    /\ \E rc_success \in BOOLEAN :
          failed_publishes' = IF rc_success THEN failed_publishes
                              ELSE failed_publishes + 1
    /\ pub_pc' = "publish_false"
    /\ UNCHANGED <<publisherInputs, current_repeat, pub_status, loop_exit,
                   ftp_folder_files,
                   corrVars, metricsVars, runVars, analyzerVars, second>>

\* client.publish(topic, false_message), its log, time.sleep(interval_ft_s)
\* and the increment of current_repeat when repeats is not -1.
PublishFalse ==
    /\ pub_pc = "publish_false"
    /\ pub_trace' = Append(pub_trace, "false")
    /\ \E rc_success \in BOOLEAN :
          failed_publishes' = IF rc_success THEN failed_publishes
                              ELSE failed_publishes + 1
    /\ current_repeat' = IF repeats # Infinite THEN current_repeat + 1
                         ELSE current_repeat
    /\ pub_pc' = "loop"
    /\ UNCHANGED <<publisherInputs, pub_status, loop_exit, ftp_folder_files,
                   corrVars, metricsVars, runVars, analyzerVars, second>>

\* except KeyboardInterrupt: Ctrl+C at any point of the loop.
PublisherInterrupted ==
    /\ pub_pc \in {"loop", "publish_true", "publish_false"}
    /\ pub_pc' = "finally"
    /\ loop_exit' = "interrupt"
    /\ UNCHANGED <<publisherInputs, current_repeat, pub_status, pub_trace,
                   failed_publishes, ftp_folder_files,
                   corrVars, metricsVars, runVars, analyzerVars, second>>

\* except Exception: publish raises.
PublishRaises ==
    /\ pub_pc \in {"publish_true", "publish_false"}
    /\ pub_pc' = "finally"
    /\ loop_exit' = "exception"
    /\ UNCHANGED <<publisherInputs, current_repeat, pub_status, pub_trace,
                   failed_publishes, ftp_folder_files,
                   corrVars, metricsVars, runVars, analyzerVars, second>>

\* if repeats != -1, in the finally clause of mqtt_interval_publisher.py.
ManagesFolder ==
    /\ program = "mqtt_interval_publisher"
    /\ repeats # Infinite

\* finally: client.loop_stop(); client.disconnect()
Disconnect ==
    /\ pub_pc = "finally"
    /\ pub_trace' = Append(pub_trace, "disconnect")
    /\ IF ManagesFolder
       THEN /\ pub_pc' = "manage_ftp_folder"
            /\ UNCHANGED pub_status
       ELSE /\ pub_pc' = "done"
            /\ pub_status' = "finished"
    /\ UNCHANGED <<publisherInputs, current_repeat, loop_exit,
                   failed_publishes, ftp_folder_files,
                   corrVars, metricsVars, runVars, analyzerVars, second>>

\* time.sleep(2); manage_ftp_folder(ftp_folder_path): the files are counted,
\* measured and deleted.
ManageFtpFolder ==
    /\ pub_pc = "manage_ftp_folder"
    /\ pub_trace' = Append(pub_trace, "manage_ftp_folder")
    /\ ftp_folder_files' = 0
    /\ pub_pc' = "done"
    /\ pub_status' = "finished"
    /\ UNCHANGED <<publisherInputs, current_repeat, loop_exit,
                   failed_publishes,
                   corrVars, metricsVars, runVars, analyzerVars, second>>

NextPublisher ==
    \/ PublisherConnectExits
    \/ PublisherConnect
    \/ LoopTest
    \/ PublishTrue
    \/ PublishFalse
    \/ PublisherInterrupted
    \/ PublishRaises
    \/ Disconnect
    \/ ManageFtpFolder

----------------------------------------------------------------------------
(* Specifications *)

\* One invocation of analyze_transfers.
Init ==
    /\ CorrelateInputs(MaxSignals, MaxFtp)
    /\ calls_left = 1
    /\ CorrelateIdle
    /\ MetricsOff
    /\ RunOff
    /\ AnalyzerOff
    /\ SecondOff
    /\ PublisherOff

Next == NextCorrelate

Spec == Init /\ [][Next]_vars

\* One invocation of calculate_metrics.
InitMetrics ==
    /\ MetricsInputs(MaxRows)
    /\ metrics_calls_left = 1
    /\ metrics_returned = <<>>
    /\ CorrelateOff
    /\ RunOff
    /\ AnalyzerOff
    /\ SecondOff
    /\ PublisherOff

SpecMetrics == InitMetrics /\ [][NextMetrics]_vars

\* Repeated invocations on unchanged arguments: of analyze_transfers, or of
\* calculate_metrics.
InitRerun ==
    /\ \/ /\ CorrelateInputs(MaxSignals - 1, MaxFtp - 1)
          /\ calls_left = MaxCalls
          /\ CorrelateIdle
          /\ MetricsOff
       \/ /\ MetricsInputs(MaxRows - 1)
          /\ metrics_calls_left = MaxCalls
          /\ metrics_returned = <<>>
          /\ CorrelateOff
    /\ RunOff
    /\ AnalyzerOff
    /\ SecondOff
    /\ PublisherOff

NextRerun == NextCorrelate \/ NextMetrics

SpecRerun == InitRerun /\ [][NextRerun]_vars

\* One invocation of analyze_transfers for a single message and a longer
\* list of FTP events.
InitConn ==
    /\ CorrelateInputs(1, MaxFtp + 1)
    /\ calls_left = 1
    /\ CorrelateIdle
    /\ MetricsOff
    /\ RunOff
    /\ AnalyzerOff
    /\ SecondOff
    /\ PublisherOff

SpecConn == InitConn /\ [][NextCorrelate]_vars

\* One invocation of analyze_transfers for two messages and a longer list
\* of FTP events, with the largest tolerances.
InitShared ==
    /\ mqtt_events \in SortedSeqs(MqttEvent, 2)
    /\ ftp_events \in SortedSeqs(FtpEvent, MaxFtp + 1)
    /\ time_tolerance_seconds_stor = MaxTolStor
    /\ time_tolerance_seconds_conn = MaxTolConn
    /\ calls_left = 1
    /\ CorrelateIdle
    /\ MetricsOff
    /\ RunOff
    /\ AnalyzerOff
    /\ SecondOff
    /\ PublisherOff

SpecShared == InitShared /\ [][NextCorrelate]_vars

\* Two invocations of analyze_transfers, the second on the list the caller
\* shortened by 'true' messages the first one skipped.
InitDrop ==
    /\ CorrelateInputs(MaxSignals, MaxFtp - 1)
    /\ calls_left = 2
    /\ CorrelateIdle
    /\ MetricsOff
    /\ RunOff
    /\ AnalyzerOff
    /\ SecondOff
    /\ PublisherOff

NextDrop == NextCorrelate \/ DropSkipped

SpecDrop == InitDrop /\ [][NextDrop]_vars

\* One run of run_analysis.
InitRun ==
    /\ RunInputs(MaxSignals, MaxFtp)
    /\ calls_left = 0
    /\ CorrelateIdle
    /\ MetricsOff
    /\ RunIdle
    /\ AnalyzerOff
    /\ SecondOff
    /\ PublisherOff

SpecRun == InitRun /\ [][NextRun]_vars

\* One run of run_analyzer.
InitAnalyzer ==
    /\ AnalyzerInputs(MaxRows)
    /\ AnalyzerIdle
    /\ SecondOff
    /\ PublisherOff
    /\ CorrelateOff
    /\ RunOff

SpecAnalyzer == InitAnalyzer /\ [][NextAnalyzer]_vars

\* One run of either program: of run_analysis, or of run_analyzer.
InitPrograms ==
    \/ /\ RunInputs(MaxSignals - 1, MaxFtp - 1)
       /\ calls_left = 0
       /\ CorrelateIdle
       /\ MetricsOff
       /\ RunIdle
       /\ AnalyzerOff
       /\ SecondOff
       /\ PublisherOff
    \/ /\ AnalyzerInputs(MaxRows - 1)
       /\ AnalyzerIdle
       /\ SecondOff
       /\ PublisherOff
       /\ CorrelateOff
       /\ RunOff

NextPrograms == NextRun \/ NextAnalyzer

SpecPrograms == InitPrograms /\ [][NextPrograms]_vars

\* Two invocations of analyze_transfers on two MQTT lists, interleaved.
InitPair ==
    /\ mqtt_events \in SortedSeqs(MqttEvent, MaxSignals - 1)
    /\ ftp_events \in SortedSeqs(FtpEvent, MaxFtp - 1)
    /\ time_tolerance_seconds_stor = MaxTolStor
    /\ time_tolerance_seconds_conn = MaxTolConn
    /\ calls_left = 1
    /\ CorrelateIdle
    /\ MetricsOff
    /\ RunOff
    /\ AnalyzerOff
    /\ SecondIdle(MaxSignals - 2)
    /\ PublisherOff

SpecPair == InitPair /\ [][NextPair]_vars

\* One run of run_publisher, in either script.
InitPublisher ==
    /\ CorrelateOff
    /\ MetricsOff
    /\ RunOff
    /\ AnalyzerOff
    /\ SecondOff
    /\ PublisherInputs
    /\ PublisherIdle

SpecPublisher == InitPublisher /\ [][NextPublisher]_vars

----------------------------------------------------------------------------
(* Properties of analyze_transfers *)

\* Every record analyze_transfers has produced: in the running invocation
\* and in the values already returned.
EmittedRecords ==
    { analysis_results[k] : k \in 1 .. Len(analysis_results) }
    \cup UNION { { returned[c][k] : k \in 1 .. Len(returned[c]) } :
                 c \in 1 .. Len(returned) }

\* The positions of the 'true' messages the loop has gone past.
ProcessedSignalOn ==
    { k \in 1 .. Len(mqtt_events) : k < i /\ mqtt_events[k].type = "true" }

\* The positions of the STOR events inside the closed window of a 'true'
\* message sent at time t.
StorsInWindow(t) ==
    { k \in 1 .. Len(ftp_events) :
        /\ ftp_events[k].type = "STOR"
        /\ t <= ftp_events[k].timestamp
        /\ ftp_events[k].timestamp <= t + time_tolerance_seconds_stor }

\* The loop is taking the iteration of a 'true' message.
SignalOnStep ==
    /\ pc = "loop"
    /\ i <= Len(mqtt_events)
    /\ mqtt_events[i].type = "true"
    /\ i' = i + 1

\* The step appends a record.
EmitStep == Len(analysis_results') = Len(analysis_results) + 1

\* C1: every emitted record has latency = transfer start - signal on within
\* [0, start tolerance] and duration = completion - transfer start >= 0.
C1_LatencyAndDurationBounds ==
    \A r \in EmittedRecords :
        /\ r.time_true_to_transfer_start_seconds
              = r.ftp_stor_time - r.mqtt_true_time
        /\ r.transfer_duration_seconds
              = r.ftp_completion_time - r.ftp_stor_time
        /\ 0 <= r.time_true_to_transfer_start_seconds
        /\ r.time_true_to_transfer_start_seconds <= time_tolerance_seconds_stor
        /\ r.transfer_duration_seconds >= 0

\* C1 witness: a returned record whose latency sits on the upper end of a
\* positive tolerance, next to one with latency 0.
C1_Witness ==
    /\ Len(returned) = 1
    /\ time_tolerance_seconds_stor > 0
    /\ \E r \in EmittedRecords :
          r.time_true_to_transfer_start_seconds = time_tolerance_seconds_stor
    /\ \E r \in EmittedRecords : r.time_true_to_transfer_start_seconds = 0

C3_AtMostOneRecordPerSignalOn ==
    /\ Len(analysis_results) <= Cardinality(ProcessedSignalOn)
    /\ \A c \in 1 .. Len(returned) :
          Len(returned[c])
            <= Cardinality({ k \in 1 .. Len(mqtt_events) :
                               mqtt_events[k].type = "true" })

\* C3 witness: 'true', 'false', 'true' with a record for each 'true'.
C3_Witness ==
    /\ Len(mqtt_events) = 3
    /\ mqtt_events[1].type = "true"
    /\ mqtt_events[2].type = "false"
    /\ mqtt_events[3].type = "true"
    /\ Len(returned) = 1
    /\ Len(returned[1]) = 2

\* C4: the iteration of a 'true' message sent at t picks the first STOR, in
\* list order, with t <= timestamp <= t + start tolerance; with no STOR in
\* that closed interval it finds none and appends no record.
C4_StartMatchClosedWindow ==
    [][ SignalOnStep =>
          LET window == StorsInWindow(mqtt_events[i].timestamp)
          IN IF window = {}
             THEN /\ found_stor' = NoEvent
                  /\ analysis_results' = analysis_results
             ELSE found_stor' = ftp_events[MinOf(window)] ]_vars

\* C4 witness: a first 'true' message whose only STOR lies one tick past
\* its window and is skipped, then a second one that matches the same STOR
\* on the last tick of its window.
C4_Witness ==
    /\ Len(mqtt_events) = 2
    /\ i = 3
    /\ mqtt_events[1].type = "true"
    /\ mqtt_events[2].type = "true"
    /\ time_tolerance_seconds_stor > 0
    /\ \E k \in 1 .. Len(ftp_events) :
          /\ ftp_events[k].type = "STOR"
          /\ ftp_events[k].timestamp
                = mqtt_events[1].timestamp + time_tolerance_seconds_stor + 1
          /\ ftp_events[k].timestamp
                = mqtt_events[2].timestamp + time_tolerance_seconds_stor
          /\ found_stor = ftp_events[k]
    /\ Len(analysis_results) = 1
    /\ analysis_results[1].mqtt_true_time = mqtt_events[2].timestamp

\* C5: an emitted record carries the time of the first 'false' message
\* behind its 'true' message in the list (None without one); it is flagged
\* completed-after-false exactly when that message exists and the completion
\* is later, and then the overlap is completion - false time; otherwise the
\* overlap is None.
C5_FalseSignalOverlap ==
    [][ (SignalOnStep /\ EmitStep) =>
          LET r == analysis_results'[Len(analysis_results')]
              behind == { j \in 1 .. Len(mqtt_events) :
                            j > i /\ mqtt_events[j].type = "false" }
              off == IF behind = {} THEN None
                     ELSE mqtt_events[MinOf(behind)].timestamp
          IN /\ r.next_false_mqtt_time = off
             /\ r.transfer_completed_after_false_signal
                  = (behind # {} /\ r.ftp_completion_time > off)
             /\ r.time_overlap_after_false_signal_seconds
                  = IF behind # {} /\ r.ftp_completion_time > off
                    THEN r.ftp_completion_time - off
                    ELSE None ]_vars

\* C5 witness: 'false', 'true', 'false' and a transfer that starts before
\* the second 'false' and completes after it.
C5_Witness ==
    /\ Len(mqtt_events) = 3
    /\ mqtt_events[1].type = "false"
    /\ mqtt_events[2].type = "true"
    /\ mqtt_events[3].type = "false"
    /\ mqtt_events[1].timestamp < mqtt_events[2].timestamp
    /\ Len(returned) = 1
    /\ Len(returned[1]) = 1
    /\ returned[1][1].ftp_stor_time < mqtt_events[3].timestamp
    /\ returned[1][1].next_false_mqtt_time = mqtt_events[3].timestamp
    /\ returned[1][1].transfer_completed_after_false_signal
    /\ returned[1][1].time_overlap_after_false_signal_seconds > 0

C19_CompletionMatchUnbounded ==
    [][ SignalOnStep =>
          LET stor == found_stor'
              later == { k \in 1 .. Len(ftp_events) :
                           /\ ftp_events[k].type = "COMPLETION"
                           /\ stor # NoEvent
                           /\ ftp_events[k].timestamp > stor.timestamp }
          IN IF later = {}
             THEN /\ found_completion' = NoEvent
                  /\ analysis_results' = analysis_results
             ELSE /\ found_completion' = ftp_events[MinOf(later)]
                  /\ \A k \in later :
                        ftp_events[k].timestamp >= found_completion'.timestamp
                  /\ EmitStep
                  /\ analysis_results'[Len(analysis_results')].ftp_completion_time
                        = found_completion'.timestamp ]_vars

\* C19 witness: a record whose completion lies further behind the STOR than
\* both tolerances together, with another COMPLETION at the very time of
\* the STOR left unmatched.
C19_Witness ==
    /\ Len(returned) = 1
    /\ Len(returned[1]) = 1
    /\ returned[1][1].transfer_duration_seconds
          > time_tolerance_seconds_stor + time_tolerance_seconds_conn
    /\ \E k \in 1 .. Len(ftp_events) :
          /\ ftp_events[k].type = "COMPLETION"
          /\ ftp_events[k].timestamp = returned[1][1].ftp_stor_time

\* The timestamps of the CONN_OPEN events before, and of the CONN_CLOSE
\* events after, a time.
ConnOpensBefore(t) ==
    { ftp_events[k].timestamp : k \in
        { j \in 1 .. Len(ftp_events) :
            ftp_events[j].type = "CONN_OPEN" /\ ftp_events[j].timestamp < t } }

ConnClosesAfter(t) ==
    { ftp_events[k].timestamp : k \in
        { j \in 1 .. Len(ftp_events) :
            ftp_events[j].type = "CONN_CLOSE" /\ ftp_events[j].timestamp > t } }

\* C20: the record of an iteration carries the time of the nearest
\* CONN_OPEN before the STOR if that is at most the connection tolerance
\* before it, else None, and the time of the nearest CONN_CLOSE after the
\* completion if that is at most the connection tolerance after it, else
\* None; the record is appended whether or not such events exist.
C20_ConnectionAssociation ==
    [][ (SignalOnStep /\ found_stor' # NoEvent /\ found_completion' # NoEvent)
          =>
          LET r == analysis_results'[Len(analysis_results')]
              opens == ConnOpensBefore(found_stor'.timestamp)
              closes == ConnClosesAfter(found_completion'.timestamp)
          IN /\ EmitStep
             /\ r.connection_opened_time =
                  IF /\ opens # {}
                     /\ found_stor'.timestamp - MaxOf(opens)
                           <= time_tolerance_seconds_conn
                  THEN MaxOf(opens) ELSE None
             /\ r.connection_closed_time =
                  IF /\ closes # {}
                     /\ MinOf(closes) - found_completion'.timestamp
                           <= time_tolerance_seconds_conn
                  THEN MinOf(closes) ELSE None ]_vars

\* C20 witness: two CONN_OPEN events before the STOR, the nearer within the
\* tolerance and taken, the farther outside it; no CONN_CLOSE at all.
C20_Witness ==
    /\ Len(returned) = 1
    /\ Len(returned[1]) = 1
    /\ LET r == returned[1][1]
       IN /\ r.connection_opened_time # None
          /\ r.connection_opened_time = MaxOf(ConnOpensBefore(r.ftp_stor_time))
          /\ \E t \in ConnOpensBefore(r.ftp_stor_time) :
                r.ftp_stor_time - t > time_tolerance_seconds_conn
          /\ ConnClosesAfter(r.ftp_completion_time) = {}
          /\ r.connection_closed_time = None

----------------------------------------------------------------------------
(* Properties of run_analysis *)

\* analyze_transfers has not been entered.
NeverInvoked == pc = "idle" /\ returned = <<>> /\ calls_left = 0

\* The report was written: the file holds it and the summary figures exist.
ReportWritten == report_file = "report"

\* C11: the summary is written only for a non-empty result: after
\* analyze_transfers returned no record, and whenever there is no FTP event
\* at all, the run ends before the report; every summary written has a
\* positive count and no figure of it is a division by zero.
C11_SummaryOnlyForRecords ==
    /\ (ReportWritten \/ summary # NoSummary) =>
          /\ Len(returned) = 1
          /\ returned[1] # <<>>
          /\ summary.count = Len(returned[1])
          /\ summary.count > 0
          /\ ZeroDivisionError \notin
                { summary.avg_time_true_to_start,
                  summary.avg_transfer_duration,
                  summary.transfers_after_false_percent,
                  summary.avg_overlap_after_false,
                  summary.overlapped_with_previous_percent }
    /\ (Len(returned) = 1 /\ returned[1] = <<>>) => ~ReportWritten
    /\ ftp_events = <<>> => ~ReportWritten /\ summary = NoSummary

\* C11 witness: analyze_transfers was invoked on events of both kinds,
\* returned no record, and the run has ended without a report.
C11_Witness ==
    /\ run_pc = "done"
    /\ \E k \in 1 .. Len(mqtt_events) : mqtt_events[k].type = "true"
    /\ \E k \in 1 .. Len(ftp_events) : ftp_events[k].type = "STOR"
    /\ returned = << <<>> >>
    /\ exit_status = "returned"
    /\ "No successful FTP transfer correlations found" \in logged
    /\ ~ReportWritten
    /\ summary = NoSummary

\* The sum of a figure over the records, a record that fails the test
\* adding nothing.
RecordsWhere(rs, flag) ==
    { k \in 1 .. Len(rs) :
        CASE flag = "after_false" -> rs[k].transfer_completed_after_false_signal
          [] flag = "overlapped" -> rs[k].overlapped_with_previous_transfer
          [] OTHER -> TRUE }

SumOfField(rs, field, ks) ==
    SumSeq([ k \in 1 .. Len(rs) |->
               IF k \notin ks THEN 0
               ELSE CASE field = "latency" ->
                           rs[k].ftp_stor_time - rs[k].mqtt_true_time
                      [] field = "duration" ->
                           rs[k].ftp_completion_time - rs[k].ftp_stor_time
                      [] OTHER ->
                           rs[k].time_overlap_after_false_signal_seconds ])

\* C12: the summary of a written report has count = number of records;
\* average, minimum and maximum of the latency and of the duration of all
\* records; the number of records completed after the 'false' signal, that
\* number as a percentage of count, and the average and maximum overlap
\* over exactly those records (none without such a record); the number of
\* records overlapped with the previous transfer and that number as a
\* percentage of count.  Times are printed with four decimals, percentages
\* with two.
C12_SummaryStatistics ==
    ReportWritten =>
      LET rs == returned[1]
          n == Len(rs)
          all == RecordsWhere(rs, "all")
          after == RecordsWhere(rs, "after_false")
          prev == RecordsWhere(rs, "overlapped")
          latency == { rs[k].ftp_stor_time - rs[k].mqtt_true_time : k \in all }
          duration ==
              { rs[k].ftp_completion_time - rs[k].ftp_stor_time : k \in all }
          overlap ==
              { rs[k].time_overlap_after_false_signal_seconds : k \in after }
      IN /\ summary.count = n
         /\ summary.avg_time_true_to_start
              = RoundDiv(10000 * SumOfField(rs, "latency", all), n)
         /\ summary.min_time_true_to_start = 10000 * MinOf(latency)
         /\ summary.max_time_true_to_start = 10000 * MaxOf(latency)
         /\ summary.avg_transfer_duration
              = RoundDiv(10000 * SumOfField(rs, "duration", all), n)
         /\ summary.min_transfer_duration = 10000 * MinOf(duration)
         /\ summary.max_transfer_duration = 10000 * MaxOf(duration)
         /\ summary.transfers_after_false = Cardinality(after)
         /\ summary.transfers_after_false_percent
              = RoundDiv(10000 * Cardinality(after), n)
         /\ summary.avg_overlap_after_false
              = IF after = {} THEN None
                ELSE RoundDiv(10000 * SumOfField(rs, "overlap", after),
                              Cardinality(after))
         /\ summary.max_overlap_after_false
              = IF after = {} THEN None ELSE 10000 * MaxOf(overlap)
         /\ summary.overlapped_with_previous = Cardinality(prev)
         /\ summary.overlapped_with_previous_percent
              = RoundDiv(10000 * Cardinality(prev), n)

\* C12 witness: a report over two records with different latencies and
\* different durations, one of them completed after the 'false' signal and
\* one of them overlapped with the previous transfer.
C12_Witness ==
    /\ ReportWritten
    /\ summary.count = 2
    /\ summary.min_time_true_to_start < summary.max_time_true_to_start
    /\ summary.min_transfer_duration < summary.max_transfer_duration
    /\ summary.transfers_after_false = 1
    /\ summary.avg_overlap_after_false > 0
    /\ summary.overlapped_with_previous = 1

\* C15: with the MQTT log or the Wireshark CSV absent the run ends in
\* sys.exit(1) with an error logged, analyze_transfers is never entered and
\* the report is never written.
C15_AbsentSourceIsFatal ==
    (mqtt_log = "absent" \/ ftp_csv = "absent") =>
      /\ NeverInvoked
      /\ ~ReportWritten
      /\ exit_status # "returned"
      /\ run_pc = "done" =>
           /\ exit_status = "exit_1"
           /\ logged \cap Errors # {}
           /\ logged \cap (Warnings \cup Infos) = {}

\* C15 witness: the MQTT log was read and holds messages, the CSV is absent,
\* and the run has ended in sys.exit(1).
C15_Witness ==
    /\ mqtt_log = "readable"
    /\ mqtt_events # <<>>
    /\ ftp_csv = "absent"
    /\ run_pc = "done"
    /\ exit_status = "exit_1"
    /\ logged = {"Wireshark FTP CSV file not found"}

\* One of the two sources yields no event.
ZeroEvents == mqtt_events = <<>> \/ ftp_events = <<>>

\* The run has ended normally with a warning, without entering
\* analyze_transfers and without a report.
EndedWithWarning ==
    /\ exit_status = "returned"
    /\ logged \cap Warnings # {}
    /\ logged \cap Errors = {}
    /\ NeverInvoked
    /\ ~ReportWritten

\* C16 as stated: whenever both input files exist and can be opened and
\* one of them yields zero events, the run ends normally with a warning.
C16_ZeroEventsNeverFatal ==
    ( /\ run_pc = "done"
      /\ mqtt_log = "readable"
      /\ ftp_csv \in {"readable", "empty", "no_columns"}
      /\ ZeroEvents ) => EndedWithWarning

\* C16 amended: when both parsers run to their end and one of them returns
\* no event, the run ends normally with a warning, analyze_transfers is not
\* entered and no report is written; a zero-byte CSV and a CSV without the
\* Time or Info column do not reach that point: they end the run in
\* sys.exit(1) with an error logged.
C16_ParsedZeroEventsNotFatal ==
    /\ ( /\ mqtt_log = "readable"
         /\ ftp_csv = "readable"
         /\ ZeroEvents ) =>
          /\ NeverInvoked
          /\ ~ReportWritten
          /\ exit_status # "exit_1"
          /\ run_pc = "done" => EndedWithWarning
    /\ ( /\ run_pc = "done"
         /\ mqtt_log = "readable"
         /\ ftp_csv \in {"empty", "no_columns"} ) =>
          /\ exit_status = "exit_1"
          /\ logged \cap Errors # {}
          /\ NeverInvoked
          /\ ~ReportWritten

\* C16 witness: the MQTT log holds messages, the CSV was parsed and holds
\* no relevant event, and the run has ended normally with the warning.
C16_Witness ==
    /\ mqtt_log = "readable"
    /\ ftp_csv = "readable"
    /\ mqtt_events # <<>>
    /\ ftp_events = <<>>
    /\ run_pc = "done"
    /\ EndedWithWarning
    /\ logged = {"No relevant FTP events found"}

----------------------------------------------------------------------------
(* Properties of calculate_metrics *)

\* The timestamp of a row of df.
FrameTime(k) == df.cell["frame.time"][k]

\* The earliest / latest timestamp of a set of rows, "" for no row.
EarliestOf(rows) ==
    IF rows = {} THEN EmptyString ELSE MinOf({ FrameTime(k) : k \in rows })

LatestOf(rows) ==
    IF rows = {} THEN EmptyString ELSE MaxOf({ FrameTime(k) : k \in rows })

HasColumns(cols) == cols \subseteq df.columns

SourceInSet(k) == df.cell["ip.src"][k] \in camera_ips
DestinationInSet(k) == df.cell["ip.dst"][k] \in camera_ips

\* The rows with SYN set / with FIN or RESET set.
SynRows == { k \in 1 .. df.nrows : df.cell["tcp.flags.syn"][k] = 1 }

FinOrResetRows ==
    { k \in 1 .. df.nrows :
        df.cell["tcp.flags.fin"][k] = 1 \/ df.cell["tcp.flags.reset"][k] = 1 }

\* C14: a returned throughput is (sum of frame.len * 8) / (duration_s *
\* 1024 * 1024) when duration_s > 0 and the table has the frame.len column,
\* and 0.0 when duration_s <= 0 or the column is missing.
C14_Throughput ==
    \A c \in 1 .. Len(metrics_returned) :
        ~metrics_returned[c].raised =>
          LET t == metrics_returned[c].metrics.measured_throughput_Mbps
          IN IF duration_s > 0 /\ HasColumns({"frame.len"})
             THEN t.num * (duration_s * 1024 * 1024)
                    = SumSeq(df.cell["frame.len"]) * 8 * t.den
             ELSE t = ZeroFloat

\* C14 witness: a returned throughput for MaxRows frames over a positive
\* duration.
C14_Witness ==
    /\ Len(metrics_returned) = 1
    /\ ~metrics_returned[1].raised
    /\ duration_s > 0
    /\ HasColumns({"frame.len"})
    /\ df.nrows = MaxRows
    /\ metrics_returned[1].metrics.measured_throughput_Mbps.num
          >= 8 * MaxRows

\* The TCP-level open detection runs on a table with the SYN and source
\* columns, the close detection on a table with the FIN, source and
\* destination columns.
OpenDetectionRuns == HasColumns({"tcp.flags.syn", "ip.src"})
CloseDetectionRuns == HasColumns({"tcp.flags.fin", "ip.src", "ip.dst"})

\* The rows the TCP-level detection selects for the open timestamp (SYN,
\* sent from an address of the set) and for the close timestamp (FIN or
\* RESET, sent from or to an address of the set).
TcpOpenRows ==
    IF OpenDetectionRuns THEN { k \in SynRows : SourceInSet(k) } ELSE {}

TcpCloseRows ==
    IF CloseDetectionRuns /\ HasColumns({"tcp.flags.reset"})
    THEN { k \in FinOrResetRows : SourceInSet(k) \/ DestinationInSet(k) }
    ELSE {}

\* The TCP-level detection reads a column the table lacks: the RESET column
\* of a table the close detection runs on, or the frame time of a selected
\* row.
TcpDetectionRaises ==
    \/ CloseDetectionRuns /\ ~HasColumns({"tcp.flags.reset"})
    \/ (TcpOpenRows # {} \/ TcpCloseRows # {}) /\ ~HasColumns({"frame.time"})

\* C7: on a table without any of the recognised columns calculate_metrics
\* returns, with the five counters 0, throughput 0.0, average RTT 0.0 and
\* both connection timestamps empty.
C7_NoColumnsAllZero ==
    \A c \in 1 .. Len(metrics_returned) :
        df.columns = {} =>
          /\ ~metrics_returned[c].raised
          /\ metrics_returned[c].metrics =
               [ total_retransmissions |-> 0, zero_window_count |-> 0,
                 window_full_count |-> 0, lost_segments_count |-> 0,
                 duplicate_ack_count |-> 0,
                 measured_throughput_Mbps |-> ZeroFloat,
                 avg_rtt_ms |-> ZeroFloat,
                 ftp_conn_opened_timestamp |-> EmptyString,
                 ftp_conn_closed_timestamp |-> EmptyString ]

\* C7 witness: an invocation has returned on a table with rows and no
\* recognised column, for a positive duration and a resolved RTT field.
C7_Witness ==
    /\ df.columns = {}
    /\ df.nrows > 0
    /\ duration_s > 0
    /\ rtt_field = RttColumn
    /\ Len(metrics_returned) = 1
    /\ ~metrics_returned[1].raised

\* C8: calculate_metrics raises for no subset of the recognised columns.
C8_NeverRaises ==
    \A c \in 1 .. Len(metrics_returned) : ~metrics_returned[c].raised

\* C9 as stated: on a table with the TCP-level columns the open timestamp
\* is the earliest among the SYN rows whose source or destination is in the
\* address set, and the close timestamp the latest among the FIN-or-RESET
\* rows whose source or destination is in the address set.
C9_SourceOrDestinationForBoth ==
    \A c \in 1 .. Len(metrics_returned) :
        TcpColumns \subseteq df.columns =>
          LET open == { k \in SynRows : SourceInSet(k) \/ DestinationInSet(k) }
              close == { k \in FinOrResetRows :
                           SourceInSet(k) \/ DestinationInSet(k) }
              m == metrics_returned[c].metrics
          IN /\ ~metrics_returned[c].raised
             /\ open # {} => m.ftp_conn_opened_timestamp = EarliestOf(open)
             /\ close # {} => m.ftp_conn_closed_timestamp = LatestOf(close)

\* C9 amended: the open timestamp is the earliest among the SYN rows whose
\* source is in the address set (a SYN row that has only its destination in
\* the set is not considered; on a table without the SYN or the source
\* column no row is), and the close timestamp is the latest among the
\* FIN-or-RESET rows whose source or destination is in the address set (on a
\* table without the FIN, the source or the destination column no row is).
\* Without such rows and without the column the protocol-level indicators
\* are read from, the timestamp stays empty.  The detection raises when the
\* close detection runs on a table without the RESET column, and when a row
\* is selected on a table without frame times.
C9_SourceForOpenEitherForClose ==
    \A c \in 1 .. Len(metrics_returned) :
        LET m == metrics_returned[c].metrics
        IN IF TcpDetectionRaises
           THEN metrics_returned[c].raised
           ELSE ~metrics_returned[c].raised =>
                  /\ TcpOpenRows # {} =>
                       m.ftp_conn_opened_timestamp = EarliestOf(TcpOpenRows)
                  /\ (TcpOpenRows = {} /\ ~HasColumns({"ftp.response.code"}))
                       => m.ftp_conn_opened_timestamp = EmptyString
                  /\ TcpCloseRows # {} =>
                       m.ftp_conn_closed_timestamp = LatestOf(TcpCloseRows)
                  /\ (TcpCloseRows = {} /\ ~HasColumns({"ftp.request.command"}))
                       => m.ftp_conn_closed_timestamp = EmptyString

\* C9 witness: an early row with SYN and FIN set that has only its
\* destination in the address set, a later SYN row sent from an address of
\* the set; the open timestamp is the later row's, the close timestamp the
\* earlier row's.
C9_Witness ==
    /\ TcpColumns \subseteq df.columns
    /\ Len(metrics_returned) = 1
    /\ ~metrics_returned[1].raised
    /\ \E a, b \in 1 .. df.nrows :
          /\ a \in SynRows /\ a \in FinOrResetRows
          /\ ~SourceInSet(a) /\ DestinationInSet(a)
          /\ b \in SynRows /\ b \notin FinOrResetRows
          /\ SourceInSet(b)
          /\ FrameTime(a) < FrameTime(b)
          /\ metrics_returned[1].metrics.ftp_conn_opened_timestamp
                = FrameTime(b)
          /\ metrics_returned[1].metrics.ftp_conn_closed_timestamp
                = FrameTime(a)

\* The TCP-flag detection ran to its end on df, and left the open / close
\* timestamp undetermined.
TcpDetectionCompleted == ~TcpDetectionRaises
TcpOpenUndetermined == TcpOpenRows = {}
TcpCloseUndetermined == TcpCloseRows = {}

\* The rows of df carrying a response / command of the given kind; no row
\* when df lacks the column.
ResponseRows(codes) ==
    IF HasColumns({"ftp.response.code"})
    THEN { k \in 1 .. df.nrows : df.cell["ftp.response.code"][k] \in codes }
    ELSE {}

CommandRows(commands) ==
    IF "ftp.request.command" \in df.columns
    THEN { k \in 1 .. df.nrows :
             df.cell["ftp.request.command"][k] \in commands }
    ELSE {}

\* C10 as stated, on a table with frame times and after a completed
\* TCP-flag detection: an undetermined open timestamp is taken from the
\* 220/230 rows and no others, an undetermined close timestamp from the
\* QUIT rows and the 221 rows of whichever of the two columns is present, a
\* determined timestamp is kept, a timestamp no row is found for stays
\* empty, and nothing is raised.
C10_FallbackAsStated ==
    \A c \in 1 .. Len(metrics_returned) :
        ("frame.time" \in df.columns /\ TcpDetectionCompleted) =>
          LET open == ResponseRows({"220", "230"})
              close == CommandRows({"QUIT"}) \cup ResponseRows({"221"})
              m == metrics_returned[c].metrics
          IN /\ ~metrics_returned[c].raised
             /\ m.ftp_conn_opened_timestamp =
                  IF TcpOpenUndetermined THEN EarliestOf(open)
                  ELSE EarliestOf(TcpOpenRows)
             /\ m.ftp_conn_closed_timestamp =
                  IF TcpCloseUndetermined THEN LatestOf(close)
                  ELSE LatestOf(TcpCloseRows)

\* The rows the two fallbacks select: the open fallback runs only on a
\* table with the response-code column and also takes the USER commands;
\* the close fallback runs only on a table with the command column.
FallbackOpenRows ==
    IF "ftp.response.code" \in df.columns
    THEN ResponseRows({"220", "230"}) \cup CommandRows({"USER"})
    ELSE {}

FallbackCloseRows ==
    IF "ftp.request.command" \in df.columns
    THEN CommandRows({"QUIT"}) \cup ResponseRows({"221"})
    ELSE {}

\* C10 amended, after a completed TCP-flag detection: an undetermined open
\* timestamp is the earliest frame time of the rows with a 220/230 response
\* or, when the table also has the command column, a USER command, and this
\* only if the table has the response-code column; an undetermined close
\* timestamp is the latest frame time of the rows with a QUIT command or,
\* when the table also has the response-code column, a 221 response, and
\* this only if the table has the command column; a determined timestamp is
\* kept; a timestamp no row is selected for stays empty without error.  (A
\* fallback that selects a row of a table without frame times raises.)
C10_FallbackGatedAndWithUser ==
    \A c \in 1 .. Len(metrics_returned) :
        TcpDetectionCompleted =>
          LET open == IF TcpOpenUndetermined THEN FallbackOpenRows ELSE {}
              close == IF TcpCloseUndetermined THEN FallbackCloseRows ELSE {}
              m == metrics_returned[c].metrics
          IN IF "frame.time" \notin df.columns /\ (open # {} \/ close # {})
             THEN metrics_returned[c].raised
             ELSE /\ ~metrics_returned[c].raised
                  /\ m.ftp_conn_opened_timestamp =
                       IF TcpOpenUndetermined THEN EarliestOf(open)
                       ELSE EarliestOf(TcpOpenRows)
                  /\ m.ftp_conn_closed_timestamp =
                       IF TcpCloseUndetermined THEN LatestOf(close)
                       ELSE LatestOf(TcpCloseRows)

\* C10 witness: no TCP-level open or close was found; a USER command
\* precedes the 220 response and gives the open timestamp, and a QUIT
\* command gives the close timestamp.
C10_Witness ==
    /\ TimestampColumns \subseteq df.columns
    /\ TcpDetectionCompleted
    /\ TcpOpenUndetermined
    /\ TcpCloseUndetermined
    /\ Len(metrics_returned) = 1
    /\ ~metrics_returned[1].raised
    /\ \E a, b \in 1 .. df.nrows :
          /\ df.cell["ftp.request.command"][a] = "USER"
          /\ df.cell["ftp.response.code"][a] = "nan"
          /\ df.cell["ftp.response.code"][b] = "220"
          /\ df.cell["ftp.request.command"][b] = "QUIT"
          /\ FrameTime(a) < FrameTime(b)
          /\ metrics_returned[1].metrics.ftp_conn_opened_timestamp
                = FrameTime(a)
          /\ metrics_returned[1].metrics.ftp_conn_closed_timestamp
                = FrameTime(b)

----------------------------------------------------------------------------
(* Properties of analyze_tshark_capture and run_analyzer *)

\* run_analyzer has ended after analysing a capture whose export and
\* reading succeeded.
CaptureAnalysed ==
    /\ az_pc = "done"
    /\ analysis # <<>>
    /\ fault \notin {"export_failed", "csv_unreadable"}

\* The packets of the capture sent from or to the address.
PacketsOf(ip) ==
    { k \in 1 .. df.nrows :
        df.cell["ip.src"][k] = ip \/ df.cell["ip.dst"][k] = ip }

\* The configured addresses that occur in the capture.
ObservedCameras == { ip \in camera_ips : PacketsOf(ip) # {} }

\* The per-camera entries analyze_tshark_capture returned for the address.
EntriesOf(ip) ==
    { p \in DOMAIN analysis[1].per_camera :
        analysis[1].per_camera[p].ip = ip }

\* C13: the overall metrics count the distinct configured addresses that
\* occur as source or destination of at least one packet; there is exactly
\* one per-camera entry for each such address and none for any other; the
\* entry holds what calculate_metrics returns for the packets sent from or
\* to that address (its retransmissions, its bytes, its earliest SYN sent by
\* the camera) with a count of detected cameras of 1.
C13_PerCameraMetrics ==
    CaptureAnalysed =>
      LET results == analysis[1]
      IN /\ results.overall.num_cameras_detected
               = Cardinality(ObservedCameras)
         /\ \A ip \in ObservedCameras : Cardinality(EntriesOf(ip)) = 1
         /\ \A p \in DOMAIN results.per_camera :
              LET ip == results.per_camera[p].ip
                  m == results.per_camera[p].metrics
                  syns == { k \in PacketsOf(ip) :
                              /\ df.cell["tcp.flags.syn"][k] = 1
                              /\ df.cell["ip.src"][k] = ip }
              IN /\ ip \in ObservedCameras
                 /\ m.num_cameras_detected = 1
                 /\ m = WithCamerasDetected(
                          calculate_metrics(df_cam(df, ip), duration_s,
                                            rtt_field, {ip}).metrics, 1)
                 /\ m.total_retransmissions
                       = Cardinality(
                           { k \in PacketsOf(ip) :
                               df.cell["tcp.analysis.retransmission"][k]
                                  = 1 })
                 /\ m.measured_throughput_Mbps
                       = Fraction(8 * Cardinality(PacketsOf(ip)),
                                  duration_s * 1024 * 1024)
                 /\ m.ftp_conn_opened_timestamp
                       = IF syns = {} THEN EmptyString ELSE MinOf(syns)

\* Both configured cameras occur in a capture that also holds a packet of
\* neither, one of them only as a destination, and their entries differ.
C13_Witness ==
    /\ CaptureAnalysed
    /\ camera_ips = CameraIps
    /\ ObservedCameras = CameraIps
    /\ \E k \in 1 .. df.nrows : k \notin PacketsOf(CameraIp)
    /\ \A k \in 1 .. df.nrows : df.cell["ip.src"][k] # SecondCameraIp
    /\ Len(analysis[1].per_camera) = 2
    /\ analysis[1].overall.num_cameras_detected = 2
    /\ analysis[1].per_camera[1].metrics
          # analysis[1].per_camera[2].metrics

\* The quantity a row has to carry under each column of the header: the
\* metrics under the columns of their own names, the last column empty.
QuantityUnder(header) ==
    CASE header = "Timestamp" -> "current_timestamp"
      [] header = "Camera_IP" -> "camera"
      [] header = "interval_true_false_ms" -> "interval_true_false"
      [] header = "interval_false_true_ms" -> "interval_false_true"
      [] header = "repeats_configured" -> "repeats"
      [] header = "files_before_delete" -> "files_before"
      [] header = "files_after_delete" -> "files_after"
      [] header = "avg_image_size_MB" -> "avg_size_mb"
      [] header = "FPS_Manual" -> ""
      [] OTHER -> header

\* The position of a column in the header.
PositionOf(header) == CHOOSE p \in DOMAIN headers : headers[p] = header

\* The metrics the r-th appended row reports: the overall ones first, then
\* those of the per-camera entries in their order.
MetricsOfRow(r) ==
    IF r = 1 THEN analysis[1].overall
    ELSE analysis[1].per_camera[r - 1].metrics

\* C17: every row appended in a run, the 'Overall' row and each camera's
\* row, has the 19 cells of the header, each carrying the quantity of the
\* column at its position; so every metric and both connection timestamps
\* stand at the same position in all of them, and the cell under a metric's
\* column holds that metric of the row's analysis.
C17_RowsFollowHeader ==
    \A r \in DOMAIN worksheet :
      /\ Len(worksheet[r]) = 19
      /\ Len(worksheet[r]) = Len(headers)
      /\ \A p \in DOMAIN headers :
           worksheet[r][p].quantity = QuantityUnder(headers[p])
      /\ worksheet[r][PositionOf("Camera_IP")].value
            = IF r = 1 THEN "Overall" ELSE analysis[1].per_camera[r - 1].ip
      /\ \A header \in
             { "total_retransmissions", "zero_window_count",
               "window_full_count", "lost_segments_count",
               "duplicate_ack_count", "num_cameras_detected",
               "ftp_conn_opened_timestamp", "ftp_conn_closed_timestamp" } :
           worksheet[r][PositionOf(header)].value = MetricsOfRow(r)[header]
      /\ worksheet[r][PositionOf("avg_rtt_ms")].value
            = Format2f(MetricsOfRow(r).avg_rtt_ms.num,
                       MetricsOfRow(r).avg_rtt_ms.den)
      /\ worksheet[r][PositionOf("measured_throughput_Mbps")].value
            = Format4f(MetricsOfRow(r).measured_throughput_Mbps.num,
                       MetricsOfRow(r).measured_throughput_Mbps.den)

\* A run appended the 'Overall' row and the rows of two cameras, whose
\* retransmission counts and open timestamps are not all the same.
C17_Witness ==
    /\ az_pc = "done"
    /\ Len(worksheet) = 3
    /\ worksheet[1][2].value = "Overall"
    /\ worksheet[2][9].value # worksheet[3][9].value
    /\ worksheet[1][9].value > worksheet[2][9].value
    /\ worksheet[2][17].value # worksheet[3][17].value

\* A run was aborted: the process ended in sys.exit(1), or an exception
\* left run_analyzer.
Aborted == exit_status = "exit_1" \/ az_status \in {"exit_1", "raised"}

\* A mandatory input is missing: the MQTT log or the Wireshark CSV of
\* run_analysis, the credentials file of run_analyzer.
MissingInputSource ==
    \/ run_pc # "off" /\ (mqtt_log = "absent" \/ ftp_csv = "absent")
    \/ az_pc # "off" /\ fault = "credentials_missing"

\* The number of 'true' messages of the MQTT log.
SignalOnCount ==
    Cardinality({ k \in DOMAIN mqtt_events : mqtt_events[k].type = "true" })

\* The cells of a row under the metric columns are those of default_metrics.
ZeroedMetrics(row) ==
    /\ \A header \in
           { "total_retransmissions", "zero_window_count",
             "window_full_count", "avg_rtt_ms", "lost_segments_count",
             "duplicate_ack_count", "measured_throughput_Mbps",
             "num_cameras_detected" } :
         row[PositionOf(header)].value = 0
    /\ row[PositionOf("ftp_conn_opened_timestamp")].value = EmptyString
    /\ row[PositionOf("ftp_conn_closed_timestamp")].value = EmptyString

\* What a run that was not aborted leaves after a partial failure:
\* run_analysis reports at most one record per 'true' message; run_analyzer
\* appends no row when there is no capture to analyse or the append fails,
\* the single 'Overall' row with all-zero metrics when the export or the
\* analysis of the capture fails, and a zero average RTT in every row when
\* the capture has no RTT column.
DegradedReport ==
    /\ (run_pc = "done" /\ exit_status = "returned") =>
          /\ summary.count <= SignalOnCount
          /\ ReportWritten <=> summary.count > 0
    /\ (az_pc = "done" /\ az_status = "finished") =>
          /\ ~(config.tshark_enabled /\ CaptureFileExists) =>
                analysis = <<>> /\ worksheet = <<>>
          /\ fault = "append_failed" => worksheet = <<>>
          /\ ( /\ config.tshark_enabled /\ CaptureFileExists
               /\ fault \in {"export_failed", "csv_unreadable"} ) =>
                /\ analysis = << DefaultResults >>
                /\ analysis[1].per_camera = <<>>
                /\ Len(worksheet) = 1
                /\ ZeroedMetrics(worksheet[1])
                /\ az_logged \cap AnalyzerErrors # {}
          /\ rtt_field = NoRttField =>
                \A r \in DOMAIN worksheet :
                  worksheet[r][PositionOf("avg_rtt_ms")].value = 0

\* C18 as stated: a run is aborted only when a mandatory input source is
\* missing; after any other failure it finishes with a degraded report.
C18_OnlyMissingSourceAborts ==
    /\ Aborted => MissingInputSource
    /\ DegradedReport

\* C18 amended: run_analysis is aborted exactly when one of its two input
\* files is absent, cannot be read, is a zero-byte CSV or a CSV without the
\* Time or Info column; run_analyzer is aborted exactly when the Google
\* credentials file is missing, the Sheets API or the MQTT broker cannot be
\* reached, or stopping a capture that still runs raises.  Every other
\* failure (no capture started or no capture file, a failed publication, a
\* failed export or analysis of the capture, a capture without RTT column,
\* a failed append) lets the run finish with a degraded report.
C18_AbortsAndDegradations ==
    /\ run_pc = "done" =>
          /\ exit_status \in {"exit_1", "returned"}
          /\ exit_status = "exit_1" <=>
                \/ mqtt_log # "readable"
                \/ ftp_csv # "readable"
    /\ run_pc \notin {"done", "off"} => exit_status = "running"
    /\ az_pc = "done" =>
          /\ az_status = "exit_1" <=>
                fault \in { "credentials_missing", "sheets_unreachable",
                            "broker_unreachable" }
          /\ az_status = "raised" <=>
                TsharkStarted /\ fault = "tshark_stop_failed"
          /\ az_status \in {"exit_1", "raised", "finished"}
          /\ az_status = "finished" <=>
                "Analyzer tool finished operations" \in az_logged
    /\ az_pc \notin {"done", "off"} => az_status = "running"
    /\ DegradedReport

\* C18 witness: the export of an existing capture failed, and the run
\* finished with the single all-zero 'Overall' row.
C18_Witness ==
    /\ az_pc = "done"
    /\ az_status = "finished"
    /\ fault = "export_failed"
    /\ camera_ips # {}
    /\ analysis = << DefaultResults >>
    /\ Len(worksheet) = 1
    /\ ZeroedMetrics(worksheet[1])

----------------------------------------------------------------------------
(* Further properties of analyze_transfers *)

\* The CONN_OPEN / CONN_CLOSE events of the FTP list, by position.
ConnOpenEvents ==
    { k \in 1 .. Len(ftp_events) : ftp_events[k].type = "CONN_OPEN" }

ConnCloseEvents ==
    { k \in 1 .. Len(ftp_events) : ftp_events[k].type = "CONN_CLOSE" }

\* C21: connection events are shared, never consumed: no step of the
\* correlator changes the FTP list, and an appended record gets the nearest
\* CONN_OPEN before its STOR and the nearest CONN_CLOSE after its completion
\* within the tolerance even when an earlier record of the same invocation
\* already carries that event; records with the same STOR time carry the
\* same opening, records with the same completion time the same closing.
C21_ConnectionEventsShared ==
    [][ /\ ftp_events' = ftp_events
        /\ EmitStep =>
             LET r == analysis_results'[Len(analysis_results')]
                 opens == ConnOpensBefore(r.ftp_stor_time)
                 closes == ConnClosesAfter(r.ftp_completion_time)
             IN /\ \A k \in 1 .. Len(analysis_results) :
                     LET q == analysis_results[k]
                     IN /\ ( /\ q.connection_opened_time # None
                             /\ opens # {}
                             /\ q.connection_opened_time = MaxOf(opens)
                             /\ r.ftp_stor_time - MaxOf(opens)
                                   <= time_tolerance_seconds_conn )
                             => r.connection_opened_time
                                   = q.connection_opened_time
                        /\ ( /\ q.connection_closed_time # None
                             /\ closes # {}
                             /\ q.connection_closed_time = MinOf(closes)
                             /\ MinOf(closes) - r.ftp_completion_time
                                   <= time_tolerance_seconds_conn )
                             => r.connection_closed_time
                                   = q.connection_closed_time
                        /\ q.ftp_stor_time = r.ftp_stor_time
                             => q.connection_opened_time
                                   = r.connection_opened_time
                        /\ q.ftp_completion_time = r.ftp_completion_time
                             => q.connection_closed_time
                                   = r.connection_closed_time ]_vars

\* C21 witness: the FTP list holds one CONN_OPEN and one CONN_CLOSE, and
\* two returned records carry both of them.
C21_Witness ==
    /\ Cardinality(ConnOpenEvents) = 1
    /\ Cardinality(ConnCloseEvents) = 1
    /\ Len(returned) = 1
    /\ Len(returned[1]) = 2
    /\ returned[1][1].connection_opened_time # None
    /\ returned[1][1].connection_opened_time
          = returned[1][2].connection_opened_time
    /\ returned[1][1].connection_closed_time # None
    /\ returned[1][1].connection_closed_time
          = returned[1][2].connection_closed_time

\* C22: the iteration of a 'true' message that emits no record changes
\* neither the records nor the completion tracker; inside an invocation the
\* tracker changes only in an iteration that emits, to the completion time
\* of the record emitted; and an invocation on the list without some of its
\* skipped 'true' messages returns the same records.
C22_SkippedSignalOnIsNoOp ==
    [][ /\ (SignalOnStep /\ ~EmitStep) =>
              /\ analysis_results' = analysis_results
              /\ last_transfer_completion_time'
                    = last_transfer_completion_time
        /\ ( /\ pc = "loop"
             /\ last_transfer_completion_time'
                   # last_transfer_completion_time ) =>
              /\ SignalOnStep
              /\ EmitStep
              /\ last_transfer_completion_time'
                    = analysis_results'[Len(analysis_results')]
                          .ftp_completion_time
        /\ Len(returned') = 2 => returned'[2] = returned'[1] ]_vars

\* C22 witness: the second invocation ran on a shorter list than the
\* first, and both returned the same two records, the second of them
\* flagged as overlapping the first.
C22_Witness ==
    /\ Len(returned) = 2
    /\ Len(returned[1]) = 2
    /\ Len(mqtt_events) = 2
    /\ returned[2] = returned[1]
    /\ returned[1][2].overlapped_with_previous_transfer

\* What analyze_transfers returns for the list mq when it runs alone: the
\* loop from position idx on, with tracker last and the records acc so far.
RECURSIVE AloneFrom(_, _, _, _)
AloneFrom(mq, idx, last, acc) ==
    IF idx > Len(mq) THEN acc
    ELSE LET stor == FindStor(mq[idx].timestamp)
             completion == FindCompletion(stor)
         IN IF mq[idx].type = "true" /\ stor # NoEvent /\ completion # NoEvent
            THEN AloneFrom(mq, idx + 1, completion.timestamp,
                           Append(acc, TransferRecordIn(mq, idx, stor,
                                                        completion, last)))
            ELSE AloneFrom(mq, idx + 1, last, acc)

\* C23: the tracker is scoped to one invocation of analyze_transfers: it is
\* None when an invocation enters its loop, and whatever the interleaving of
\* two invocations on two MQTT lists, each returns what it returns when run
\* alone on its list, every overlapped_with_previous_transfer flag included.
C23_InvocationsIndependent ==
    /\ (pc = "loop" /\ i = 1) => last_transfer_completion_time = None
    /\ (second.pc = "loop" /\ second.i = 1)
          => second.last_transfer_completion_time = None
    /\ Len(returned) = 1
          => returned[1] = AloneFrom(mqtt_events, 1, None, <<>>)
    /\ second.pc = "returned"
          => second.returned[1] = AloneFrom(second.mqtt_events, 1, None, <<>>)

\* Both invocations have returned, the second one entered its loop while the
\* first one's tracker was set, and a message of the second list lies before
\* the completion the first invocation emitted.
C23_Witness ==
    /\ Len(returned) = 1
    /\ second.pc = "returned"
    /\ mqtt_events # second.mqtt_events
    /\ Len(returned[1]) > 0
    /\ Len(second.returned[1]) > 0
    /\ second.returned[1][1].overlapped_with_previous_transfer = FALSE
    /\ second.returned[1][1].mqtt_true_time
          < returned[1][1].ftp_completion_time

CompletionsAt(t) ==
    { k \in 1 .. Len(ftp_events) :
        ftp_events[k].type = "COMPLETION" /\ ftp_events[k].timestamp = t }

\* The COMPLETION events of the log.
Completions ==
    { k \in 1 .. Len(ftp_events) : ftp_events[k].type = "COMPLETION" }

\* C27: the COMPLETION of a record is strictly later than its STOR: every
\* record has a transfer_duration_seconds above 0, and the iteration of a
\* 'true' message whose first STOR in the window has the timestamp of every
\* COMPLETION of the log appends no record.
C27_CompletionStrictlyLater ==
    [][ /\ \A k \in 1 .. Len(analysis_results') :
              /\ analysis_results'[k].ftp_completion_time
                    > analysis_results'[k].ftp_stor_time
              /\ analysis_results'[k].transfer_duration_seconds > 0
        /\ ( /\ SignalOnStep
             /\ StorsInWindow(mqtt_events[i].timestamp) # {}
             /\ Completions # {}
             /\ Completions =
                  CompletionsAt(
                    ftp_events[MinOf(StorsInWindow(mqtt_events[i].timestamp))]
                        .timestamp) )
           => ~EmitStep ]_vars

\* A 'true' message found a STOR and no COMPLETION, the log holding a
\* COMPLETION with the timestamp of that STOR.
C27_Witness ==
    /\ pc = "loop"
    /\ found_stor # NoEvent
    /\ found_completion = NoEvent
    /\ CompletionsAt(found_stor.timestamp) # {}
    /\ Len(analysis_results) = 0

\* The position of the first STOR inside the window of a 'true' message sent
\* at time t, 0 without one.
FirstStorIn(t) ==
    IF StorsInWindow(t) = {} THEN 0 ELSE MinOf(StorsInWindow(t))

\* A COMPLETION later than the event at position p is in the log.
CompletionFollows(p) ==
    \E k \in Completions : ftp_events[k].timestamp > ftp_events[p].timestamp

\* The 'true' message at position k has a STOR in its window and a
\* COMPLETION after it.
HasTransfer(k) ==
    /\ FirstStorIn(mqtt_events[k].timestamp) # 0
    /\ CompletionFollows(FirstStorIn(mqtt_events[k].timestamp))

\* The number of 'true' messages up to position k that have a transfer.
TransfersUpTo(k) ==
    Cardinality({ j \in 1 .. k : mqtt_events[j].type = "true"
                                  /\ HasTransfer(j) })

\* C28: matching takes no event out of the log: when two 'true' messages the
\* loop has gone past have the same first STOR in their windows and a
\* COMPLETION follows it, each of them has its record, and the two records
\* have the same ftp_stor_time, ftp_completion_time and filename.
C28_EventsNotConsumed ==
    pc = "loop" =>
    \A k1, k2 \in ProcessedSignalOn :
        ( /\ k1 < k2
          /\ HasTransfer(k1)
          /\ FirstStorIn(mqtt_events[k1].timestamp)
                = FirstStorIn(mqtt_events[k2].timestamp) )
        => /\ Len(analysis_results) >= TransfersUpTo(k2)
           /\ TransfersUpTo(k1) < TransfersUpTo(k2)
           /\ LET rec1 == analysis_results[TransfersUpTo(k1)]
                  rec2 == analysis_results[TransfersUpTo(k2)]
              IN /\ rec1.mqtt_true_time = mqtt_events[k1].timestamp
                 /\ rec2.mqtt_true_time = mqtt_events[k2].timestamp
                 /\ rec1.ftp_stor_time = rec2.ftp_stor_time
                 /\ rec1.ftp_completion_time = rec2.ftp_completion_time
                 /\ rec1.filename = rec2.filename

\* Two 'true' messages sent at different times have been given the same
\* transfer.
C28_Witness ==
    /\ pc = "loop"
    /\ Len(analysis_results) = 2
    /\ analysis_results[1].mqtt_true_time < analysis_results[2].mqtt_true_time
    /\ analysis_results[1].ftp_stor_time = analysis_results[2].ftp_stor_time
    /\ Cardinality({ k \in 1 .. Len(ftp_events) :
                       ftp_events[k].type = "STOR" }) = 1

\* n times the pair 'true', 'false'.
RECURSIVE Cycles(_)
Cycles(n) == IF n = 0 THEN <<>> ELSE Cycles(n - 1) \o <<"true", "false">>

\* C24: repeats is the number of true/false pairs run_publisher sends: the
\* publishes alternate, beginning with the true message; a loop with a
\* finite repeats N >= 0 that nothing interrupts ends behind exactly N
\* cycles, each the true message and then the false message, and the client
\* is disconnected after them; a loop with repeats = -1 never ends by its
\* test.
C24_RepeatsIsCycleCount ==
    /\ \A k \in 1 .. Len(Publishes) :
          Publishes[k] = IF k % 2 = 1 THEN "true" ELSE "false"
    /\ loop_exit = "normal"
          => /\ repeats # Infinite
             /\ current_repeat = repeats
             /\ Publishes = Cycles(repeats)
    /\ (loop_exit = "normal" /\ pub_pc \in {"manage_ftp_folder", "done"})
          => SubSeq(pub_trace, 1, 2 * repeats + 1)
                = Cycles(repeats) \o <<"disconnect">>
    /\ (repeats = Infinite /\ pub_pc = "finally")
          => loop_exit \in {"interrupt", "exception"}

\* A run with repeats = MaxRepeats has ended by the test of its loop and
\* has disconnected.
C24_Witness ==
    /\ repeats = MaxRepeats
    /\ loop_exit = "normal"
    /\ pub_status = "finished"
    /\ Len(Publishes) = 2 * MaxRepeats
    /\ failed_publishes > 0

\* C25: in run_publisher the FTP folder is managed only if repeats is
\* finite, that is only behind a loop that ended by itself after its
\* configured cycles, and managing it is the last action of the program,
\* after the client has been disconnected.
C25_FolderManagedOnlyAfterNaturalEnd ==
    (\E k \in 1 .. Len(pub_trace) : pub_trace[k] = "manage_ftp_folder")
    => /\ repeats # Infinite
       /\ loop_exit = "normal"
       /\ Publishes = Cycles(repeats)
       /\ pub_pc = "done"
       /\ pub_trace[Len(pub_trace)] = "manage_ftp_folder"
       /\ pub_trace[Len(pub_trace) - 1] = "disconnect"

\* C29: however run_analyzer leaves its publish loop (end of the cycles,
\* interrupt or exception), the FTP folder of every configured camera is
\* emptied; the capture is analysed exactly when tshark is enabled and the
\* capture file exists, and then 1 + (number of per-camera entries) rows are
\* appended to the worksheet; without an analysis the files are deleted and
\* no row is appended.
C29_FoldersEmptiedRowsOnlyWithAnalysis ==
    (az_pc = "done" /\ az_status # "exit_1")
    => /\ \A ip \in camera_ips : ftp_folders[ip] = 0
       /\ analysis # <<>> <=> (config.tshark_enabled /\ CaptureFileExists)
       /\ analysis # <<>>
             => Len(worksheet) = 1 + Len(analysis[1].per_camera)
       /\ analysis = <<>> => worksheet = <<>>

====
